---- MODULE Spec2Model ----
(***************************************************************************)
(* CarePulse backend: authentication, session lifecycle, appointments.     *)
(*                                                                         *)
(* State: the user, patient and appointment tables, the in-memory token    *)
(* blacklist, the wall clock, the tokens handed out so far, the service    *)
(* calls in flight, and the outcome of the last request.  One action per   *)
(* resolver / service operation.                                           *)
(***************************************************************************)
EXTENDS Integers, Sequences, FiniteSets, TLC

VARIABLES
    NODE_ENV,   \* env.NODE_ENV, fixed at start-up
    users,      \* rows of the User table
    patients,   \* rows of the Patient table
    appointments, \* rows of the Appointment table
    nextId,     \* next primary key the database hands out
    blacklist,  \* TokenBlacklistService.blacklist : tokenId -> expiresAt (ms)
    now,        \* Date.now(), milliseconds
    ticks,      \* number of clock advances so far
    issued,     \* every token string the server has produced
    steps,      \* number of requests and clock events so far
    loggedOut,  \* history: the cookie pairs Mutation.logout was called with
    revoked,    \* history: tokenId -> expiresAt of the latest blacklistToken call
    inflight,   \* the service calls started, each with the await it stands at
    last        \* what the last request did and returned

vars ==
    <<NODE_ENV, users, patients, appointments, nextId, blacklist, now, ticks,
      issued, steps, loggedOut, revoked, inflight, last>>

----------------------------------------------------------------------------
\* Bounds of the model

MaxUsers == 2
MaxTicks == 2
MaxSteps == 4
MaxAppointments == 2
MaxCalls == 2

----------------------------------------------------------------------------
\* Inputs

Emails == {"a@x.com", "A@x.com", "b@x.com"}
Names == {"A"}
Phones == {"+1", "+2"}
Passwords == {"short77", "password1", "password2"}
Salts == {"s1"}
Envs == {"development", "test", "production"}

null == "<null>"
NoToken == [none |-> TRUE]
NoUser == [none |-> TRUE]

\* String.prototype.toLowerCase on the e-mail inputs
toLowerCase(s) == IF s = "A@x.com" THEN "a@x.com" ELSE s

\* JavaScript truthiness of string | null | undefined
Truthy(s) == s # null /\ s # ""

----------------------------------------------------------------------------
\* Configuration (env) and fixed program constants

JWT_SECRET == "JWT_SECRET"
JWT_REFRESH_SECRET == "JWT_REFRESH_SECRET"
SALT_ROUNDS == 10
MIN_PASSWORD_LENGTH == 8

\* env.JWT_EXPIRES_IN, default "7d", in seconds as jsonwebtoken reads it
JWT_EXPIRES_IN == 7 * 24 * 60 * 60
\* lifetimes of the access and the refresh token, seconds
ACCESS_EXPIRES_IN == 15 * 60
REFRESH_EXPIRES_IN == 7 * 24 * 60 * 60
\* logout's revocation windows, milliseconds
LOGOUT_ACCESS_MS == 15 * 60 * 1000
LOGOUT_REFRESH_MS == 7 * 24 * 60 * 60 * 1000
\* TokenBlacklistService.CLEANUP_INTERVAL
CLEANUP_INTERVAL == 5 * 60 * 1000

\* The clock advances by one of these amounts, and stops at MaxNow so that
\* every instant the model computes is within TLC's 32-bit integers
TickSteps == {1, LOGOUT_ACCESS_MS, LOGOUT_REFRESH_MS}
MaxNow == 2 * LOGOUT_REFRESH_MS + 2 * LOGOUT_ACCESS_MS

----------------------------------------------------------------------------
\* Credential hasher (bcrypt)

\* bcrypt.hash(password, SALT_ROUNDS): the digest embeds cost and salt
hashPassword(password, salt) ==
    "$2b$" \o ToString(SALT_ROUNDS) \o "$" \o salt \o "$" \o password

\* bcrypt.compare(password, hashedPassword): re-hash under the digest's salt
comparePasswords(password, hashedPassword) ==
    \E s \in Salts : hashedPassword = hashPassword(password, s)

validatePasswordShortBy1(password) ==
    IF Len(password) < MIN_PASSWORD_LENGTH - 1
    THEN <<[field |-> "password",
            message |-> "Password must be at least 8 characters long",
            code |-> "PASSWORD_TOO_SHORT"]>>
    ELSE <<>>

\* AuthService.validatePassword
validatePassword(password) ==
    IF Len(password) < MIN_PASSWORD_LENGTH
    THEN <<[field |-> "password",
            message |-> "Password must be at least 8 characters long",
            code |-> "PASSWORD_TOO_SHORT"]>>
    ELSE <<>>

----------------------------------------------------------------------------
\* Token codec (jsonwebtoken)

\* HMAC signature over the payload under a secret
HMAC(payload, secret) == [over |-> payload, key |-> secret]

\* jwt.sign(payload, secret, {expiresIn}): iat/exp are in whole seconds
jwtSign(claims, secret, expiresIn) ==
    LET iat == now \div 1000
        payload == [userId |-> claims.userId, email |-> claims.email,
                    role |-> claims.role, iat |-> iat, exp |-> iat + expiresIn]
    IN  [payload |-> payload, sig |-> HMAC(payload, secret)]

\* jwt.verify(token, secret): TRUE iff it does not throw
jwtVerify(token, secret) ==
    /\ token.sig = HMAC(token.payload, secret)
    /\ ~((now \div 1000) >= token.payload.exp)

TokenPayload(user) == [userId |-> user.id, email |-> user.email, role |-> user.role]

\* AuthService.generateToken
generateToken(user) == jwtSign(TokenPayload(user), JWT_SECRET, JWT_EXPIRES_IN)

\* AuthService.generateAccessToken / generateRefreshToken, as the resolvers
\* and the guard call them: the documented behaviour, a 15 minute token under
\* JWT_SECRET and a 7 day token under JWT_REFRESH_SECRET, same payload
generateAccessToken(user) == jwtSign(TokenPayload(user), JWT_SECRET, ACCESS_EXPIRES_IN)
generateRefreshToken(user) ==
    jwtSign(TokenPayload(user), JWT_REFRESH_SECRET, REFRESH_EXPIRES_IN)

\* Variant of validateToken that accepts either of the server's signatures
validateTokenEitherSecret(token) ==
    jwtVerify(token, JWT_SECRET) \/ jwtVerify(token, JWT_REFRESH_SECRET)

\* AuthService.validateToken: TRUE iff it returns the payload (does not throw)
validateToken(token) == jwtVerify(token, JWT_SECRET)

\* A token signed by somebody who does not hold the server's secrets
ForgedToken ==
    LET payload == [userId |-> 1, email |-> "a@x.com", role |-> "ADMIN",
                    iat |-> 0, exp |-> 4 * REFRESH_EXPIRES_IN]
    IN  [payload |-> payload, sig |-> HMAC(payload, "attacker")]

\* What a client can put in a cookie
Presentable == issued \cup {ForgedToken, NoToken}

----------------------------------------------------------------------------
\* Revocation store (TokenBlacklistService)

\* TokenBlacklistService.getTokenId: the last 32 characters of the token,
\* which all lie inside its signature part (43 characters for HS256).
\* Signatures that differ are taken to differ in those 32 characters too.
getTokenId(token) == token.sig

\* The call history after one more blacklistToken(tokenId, expiresAt) call
Recorded(history, tokenId, expiresAt) ==
    [id \in DOMAIN history \cup {tokenId} |->
        IF id = tokenId THEN expiresAt ELSE history[id]]

\* Variant of blacklistToken that forgets the entries of other identifiers
blacklistTokenReplacing(bl, tokenId, expiresAt) ==
    [id \in {tokenId} |-> expiresAt]

\* blacklistToken: Map.set
blacklistToken(bl, tokenId, expiresAt) ==
    [id \in DOMAIN bl \cup {tokenId} |-> IF id = tokenId THEN expiresAt ELSE bl[id]]

\* Variant of isTokenBlacklisted that counts the expiry instant as past
isTokenBlacklistedStrict(bl, tokenId) ==
    IF tokenId \notin DOMAIN bl THEN FALSE
    ELSE IF now >= bl[tokenId] THEN FALSE
    ELSE TRUE

\* isTokenBlacklisted: the value returned
isTokenBlacklisted(bl, tokenId) ==
    IF tokenId \notin DOMAIN bl THEN FALSE
    ELSE IF now > bl[tokenId] THEN FALSE
    ELSE TRUE

\* isTokenBlacklisted: the map it leaves behind (expired entry deleted)
afterIsTokenBlacklisted(bl, tokenId) ==
    IF tokenId \in DOMAIN bl /\ now > bl[tokenId]
    THEN [id \in DOMAIN bl \ {tokenId} |-> bl[id]]
    ELSE bl

\* Variant of clearExpiredTokens that also removes the entries expiring now
clearExpiredTokensAtExpiry(bl) ==
    [id \in {i \in DOMAIN bl : ~(now >= bl[i])} |-> bl[id]]

\* clearExpiredTokens
clearExpiredTokens(bl) ==
    [id \in {i \in DOMAIN bl : ~(now > bl[i])} |-> bl[id]]

----------------------------------------------------------------------------
\* User repository (Prisma)

findById(id) ==
    IF \E u \in users : u.id = id
    THEN CHOOSE u \in users : u.id = id ELSE NoUser

findByEmail(email) ==
    IF \E u \in users : u.email = toLowerCase(email)
    THEN CHOOSE u \in users : u.email = toLowerCase(email) ELSE NoUser

findByPhone(phone) ==
    IF \E u \in users : u.phone = phone
    THEN CHOOSE u \in users : u.phone = phone ELSE NoUser

\* UserRepository.create: the row inserted
repoCreate(data) ==
    [id |-> nextId, email |-> toLowerCase(data.email), name |-> data.name,
     phone |-> data.phone, password |-> data.password, role |-> data.role]

----------------------------------------------------------------------------
\* Cookie transport (utils/cookies.ts)

\* Variant of getCookieOptions for a cross-site deployment in every environment
getCookieOptionsCrossSite(maxAge) ==
    [httpOnly |-> TRUE,
     secure |-> (NODE_ENV = "production"),
     sameSite |-> "none",
     path |-> "/",
     maxAge |-> maxAge]

getCookieOptions(maxAge) ==
    [httpOnly |-> TRUE,
     secure |-> (NODE_ENV = "production"),
     sameSite |-> IF NODE_ENV = "production" THEN "none" ELSE "lax",
     path |-> "/",
     maxAge |-> maxAge]

\* Express res.cookie reads options.maxAge as milliseconds: the Max-Age
\* attribute it writes, in seconds, is the floor of maxAge / 1000
MaxAgeAttribute(options) == options.maxAge \div 1000

\* res.cookie("accessToken", token, ...)
setAccessTokenCookie(token) ==
    [name |-> "accessToken", value |-> token, options |-> getCookieOptions(15 * 60)]

\* res.cookie("refreshToken", token, ...)
setRefreshTokenCookie(token) ==
    [name |-> "refreshToken", value |-> token,
     options |-> getCookieOptions(7 * 24 * 60 * 60)]

clearCookieOptions ==
    [httpOnly |-> TRUE,
     secure |-> (NODE_ENV = "production"),
     sameSite |-> IF NODE_ENV = "production" THEN "none" ELSE "lax",
     path |-> "/"]

\* res.clearCookie(name, ...)
clearAccessTokenCookie ==
    [name |-> "accessToken", value |-> NoToken, options |-> clearCookieOptions]
clearRefreshTokenCookie ==
    [name |-> "refreshToken", value |-> NoToken, options |-> clearCookieOptions]
clearAuthCookies == <<clearAccessTokenCookie, clearRefreshTokenCookie>>

----------------------------------------------------------------------------
\* UserService

\* Variant of validateUniqueConstraints that looks the e-mail up only
validateUniqueConstraintsEmailOnly(email, phone, excludeId) ==
    LET existingByEmail == findByEmail(email)
    IN  IF existingByEmail # NoUser /\ existingByEmail.id # excludeId
        THEN "Email already registered"
        ELSE ""

\* validateUniqueConstraints: the message of the ValidationError thrown, "" if none.
\* excludeId = 0 stands for "no excludeId".
validateUniqueConstraints(email, phone, excludeId) ==
    LET existingByEmail == findByEmail(email)
        existingByPhone == findByPhone(phone)
    IN  IF existingByEmail # NoUser /\ existingByEmail.id # excludeId
        THEN "Email already registered"
        ELSE IF existingByPhone # NoUser /\ existingByPhone.id # excludeId
        THEN "Phone number already registered"
        ELSE ""

\* UserService.create: either a ValidationError, or the row created; with the
\* repository calls made on the way
UserServiceCreate(input) ==
    LET err == validateUniqueConstraints(input.email, input.phone, 0)
        lookups == <<[fn |-> "userRepository.findByEmail", arg |-> input.email]>>
                   \o (IF err = "Email already registered" THEN <<>>
                       ELSE <<[fn |-> "userRepository.findByPhone", arg |-> input.phone]>>)
        userData == [email |-> input.email, name |-> input.name, phone |-> input.phone,
                     password |-> IF Truthy(input.password) THEN input.password ELSE null,
                     role |-> "PATIENT"]
    IN  IF err # ""
        THEN [threw |-> TRUE, message |-> err, user |-> NoUser, calls |-> lookups]
        ELSE [threw |-> FALSE, message |-> "", user |-> repoCreate(userData),
              calls |-> lookups \o <<[fn |-> "userRepository.create", arg |-> userData]>>]

----------------------------------------------------------------------------
\* AuthService

\* Variant of RegisterCreateInput that hands the plaintext on
RegisterCreateInputPlain(input, hashedPassword) ==
    [email |-> input.email, name |-> input.name, phone |-> input.phone,
     password |-> input.password]

\* AuthService.register: the CreateUserInput handed to UserService.create
RegisterCreateInput(input, hashedPassword) ==
    [email |-> input.email, name |-> input.name, phone |-> input.phone,
     password |-> hashedPassword]

\* AuthService.register: the AuthResult, with the calls made on the way
AuthRegister(input, salt) ==
    LET passwordErrors == validatePassword(input.password)
        hashedPassword == hashPassword(input.password, salt)
        createInput == RegisterCreateInput(input, hashedPassword)
        created == UserServiceCreate(createInput)
        hashCall == <<[fn |-> "bcrypt.hash", arg |-> input.password]>>
    IN  IF Len(passwordErrors) > 0
        THEN [success |-> FALSE, token |-> NoToken, user |-> NoUser,
              errors |-> passwordErrors, calls |-> <<>>]
        ELSE IF created.threw
        THEN [success |-> FALSE, token |-> NoToken, user |-> NoUser,
              errors |-> <<[field |-> "email", message |-> created.message]>>,
              calls |-> hashCall \o created.calls]
        ELSE [success |-> TRUE, token |-> generateToken(created.user),
              user |-> created.user, errors |-> <<>>,
              calls |-> hashCall \o created.calls]

invalidCredentialsError ==
    [message |-> "Invalid email or password", code |-> "INVALID_CREDENTIALS"]

\* Variant of AuthLogin that never compares the password
AuthLoginNoCompare(input) ==
    LET user == findByEmail(input.email)
    IN  IF user = NoUser \/ ~Truthy(user.password)
        THEN [success |-> FALSE, token |-> NoToken, user |-> NoUser,
              errors |-> <<invalidCredentialsError>>]
        ELSE [success |-> TRUE, token |-> generateToken(user), user |-> user,
              errors |-> <<>>]

\* AuthService.login: the AuthResult
AuthLogin(input) ==
    LET user == findByEmail(input.email)
    IN  IF user = NoUser
        THEN [success |-> FALSE, token |-> NoToken, user |-> NoUser,
              errors |-> <<invalidCredentialsError>>]
        ELSE IF ~Truthy(user.password)
        THEN [success |-> FALSE, token |-> NoToken, user |-> NoUser,
              errors |-> <<[message |->
                  "This account does not have a password. Please contact support."]>>]
        ELSE IF ~comparePasswords(input.password, user.password)
        THEN [success |-> FALSE, token |-> NoToken, user |-> NoUser,
              errors |-> <<invalidCredentialsError>>]
        ELSE [success |-> TRUE, token |-> generateToken(user), user |-> user,
              errors |-> <<>>]

----------------------------------------------------------------------------
Init ==
    /\ NODE_ENV \in Envs
    /\ users = {}
    /\ patients = {}
    /\ appointments = {}
    /\ nextId = 1
    /\ blacklist = <<>>
    /\ now = 0
    /\ ticks = 0
    /\ issued = {}
    /\ steps = 0
    /\ loggedOut = {}
    /\ revoked = <<>>
    /\ inflight = <<>>
    /\ last = [op |-> "init"]

\* Every request and clock event counts as one step
Step == steps < MaxSteps /\ steps' = steps + 1

\* The wall clock advances
Tick ==
    /\ ticks < MaxTicks
    /\ \E d \in TickSteps : now + d <= MaxNow /\ now' = now + d
    /\ ticks' = ticks + 1
    /\ last' = [op |-> "tick"]
    /\ UNCHANGED <<NODE_ENV, inflight, appointments, revoked, loggedOut, users, patients, nextId, blacklist, issued>>

\* Mutation.register (auth.resolver.ts) over AuthService.register
Register(email, name, phone, password, salt) ==
    LET input == [email |-> email, name |-> name, phone |-> phone, password |-> password]
        result == AuthRegister(input, salt)
        accessToken == generateAccessToken(result.user)
        refreshToken == generateRefreshToken(result.user)
    IN  IF result.success /\ result.user # NoUser
        THEN /\ nextId <= MaxUsers
             /\ users' = users \cup {result.user}
             /\ nextId' = nextId + 1
             /\ issued' = issued \cup {result.token, accessToken, refreshToken}
             /\ last' = [op |-> "register", input |-> input, success |-> TRUE,
                         user |-> result.user, errors |-> result.errors,
                         token |-> result.token, calls |-> result.calls,
                         cookies |-> <<setAccessTokenCookie(accessToken),
                                       setRefreshTokenCookie(refreshToken)>>]
             /\ UNCHANGED <<NODE_ENV, inflight, appointments, revoked, loggedOut, patients, blacklist, now, ticks>>
        ELSE /\ last' = [op |-> "register", input |-> input, success |-> FALSE,
                         user |-> NoUser, errors |-> result.errors,
                         token |-> NoToken, calls |-> result.calls, cookies |-> <<>>]
             /\ UNCHANGED <<NODE_ENV, inflight, appointments, revoked, loggedOut, users, patients, nextId, blacklist, now, ticks, issued>>

\* Mutation.login (auth.resolver.ts) over AuthService.login
Login(email, password) ==
    LET input == [email |-> email, password |-> password]
        result == AuthLogin(input)
        accessToken == generateAccessToken(result.user)
        refreshToken == generateRefreshToken(result.user)
    IN  IF result.success /\ result.user # NoUser
        THEN /\ issued' = issued \cup {result.token, accessToken, refreshToken}
             /\ last' = [op |-> "login", input |-> input, success |-> TRUE,
                         user |-> result.user, errors |-> result.errors,
                         token |-> result.token,
                         cookies |-> <<setAccessTokenCookie(accessToken),
                                       setRefreshTokenCookie(refreshToken)>>]
             /\ UNCHANGED <<NODE_ENV, inflight, appointments, revoked, loggedOut, users, patients, nextId, blacklist, now, ticks>>
        ELSE /\ last' = [op |-> "login", input |-> input, success |-> FALSE,
                         user |-> NoUser, errors |-> result.errors,
                         token |-> NoToken, cookies |-> <<>>]
             /\ UNCHANGED <<NODE_ENV, inflight, appointments, revoked, loggedOut, users, patients, nextId, blacklist, now, ticks, issued>>

\* AuthService.validateRefreshToken: whether it returns the payload, and the
\* blacklist it leaves behind (the lookup deletes an expired entry)
validateRefreshToken(token) ==
    IF ~jwtVerify(token, JWT_REFRESH_SECRET)
    THEN [ok |-> FALSE, blacklist |-> blacklist]
    ELSE [ok |-> ~isTokenBlacklisted(blacklist, getTokenId(token)),
          blacklist |-> afterIsTokenBlacklisted(blacklist, getTokenId(token))]

Unauthenticated == [user |-> NoUser, token |-> NoToken, isAuthenticated |-> FALSE]

\* The access branch of createAuthContext authenticates the request
AccessBranch(accessToken) ==
    /\ accessToken # NoToken
    /\ validateToken(accessToken)
    /\ findById(accessToken.payload.userId) # NoUser

\* Variant of AccessPath that lets a failed user lookup escape
AccessPathLookupEscapes(accessToken, lookupFails) ==
    IF accessToken = NoToken \/ ~validateToken(accessToken)
    THEN [threw |-> FALSE, user |-> NoUser]
    ELSE IF lookupFails
    THEN [threw |-> TRUE, user |-> NoUser]
    ELSE [threw |-> FALSE, user |-> findById(accessToken.payload.userId)]

\* Variant of AccessPath that takes the identity from the token's payload
\* without looking the user up
AccessPathTrustsPayload(accessToken, lookupFails) ==
    IF accessToken = NoToken \/ ~validateToken(accessToken)
    THEN [threw |-> FALSE, user |-> NoUser]
    ELSE [threw |-> FALSE,
          user |-> [id |-> accessToken.payload.userId,
                    email |-> accessToken.payload.email,
                    role |-> accessToken.payload.role]]

\* Variant of AccessPath that never authenticates by the access token
AccessPathSkipped(accessToken, lookupFails) ==
    [threw |-> FALSE, user |-> NoUser]

\* createAuthContext, the access token's try block: the user it returns
\* with, NoUser when it falls through to the refresh token.  validateToken
\* throwing and userRepository.findById rejecting both land in the catch.
AccessPath(accessToken, lookupFails) ==
    IF accessToken = NoToken
    THEN [threw |-> FALSE, user |-> NoUser]
    ELSE IF ~validateToken(accessToken)
    THEN [threw |-> FALSE, user |-> NoUser]
    ELSE IF lookupFails
    THEN [threw |-> FALSE, user |-> NoUser]
    ELSE [threw |-> FALSE, user |-> findById(accessToken.payload.userId)]

\* createAuthContext (cookie transport) with the outcome of each of its two
\* user lookups: answered by the database, or failed
CreateAuthContextLookup(accessToken, refreshToken, accessLookupFails, refreshLookupFails) ==
    LET ap == AccessPath(accessToken, accessLookupFails)
        vr == validateRefreshToken(refreshToken)
        user == IF refreshLookupFails THEN NoUser
                ELSE findById(refreshToken.payload.userId)
        newAccessToken == generateAccessToken(user)
        req == [accessToken |-> accessToken, refreshToken |-> refreshToken]
        lookups == [access |-> accessLookupFails, refresh |-> refreshLookupFails]
    IN  IF ap.threw
        THEN /\ last' = [op |-> "createAuthContext", req |-> req, via |-> "none",
                         threw |-> TRUE, lookupFails |-> lookups,
                         ctx |-> Unauthenticated, cookies |-> <<>>]
             /\ UNCHANGED <<NODE_ENV, inflight, appointments, revoked, loggedOut, users, patients, nextId, blacklist, now, ticks, issued>>
        ELSE IF ap.user # NoUser
        THEN /\ last' = [op |-> "createAuthContext", req |-> req, via |-> "access",
                         threw |-> FALSE, lookupFails |-> lookups,
                         ctx |-> [user |-> ap.user,
                                  token |-> accessToken, isAuthenticated |-> TRUE],
                         cookies |-> <<>>]
             /\ UNCHANGED <<NODE_ENV, inflight, appointments, revoked, loggedOut, users, patients, nextId, blacklist, now, ticks, issued>>
        ELSE IF refreshToken # NoToken /\ vr.ok /\ user # NoUser
        THEN /\ issued' = issued \cup {newAccessToken}
             /\ blacklist' = vr.blacklist
             /\ last' = [op |-> "createAuthContext", req |-> req, via |-> "refresh",
                         threw |-> FALSE, lookupFails |-> lookups,
                         ctx |-> [user |-> user, token |-> newAccessToken,
                                  isAuthenticated |-> TRUE],
                         cookies |-> <<setAccessTokenCookie(newAccessToken)>>]
             /\ UNCHANGED <<NODE_ENV, inflight, appointments, revoked, loggedOut, users, patients, nextId, now, ticks>>
        ELSE /\ blacklist' = IF refreshToken # NoToken THEN vr.blacklist ELSE blacklist
             /\ last' = [op |-> "createAuthContext", req |-> req, via |-> "none",
                         threw |-> FALSE, lookupFails |-> lookups,
                         ctx |-> Unauthenticated, cookies |-> <<>>]
             /\ UNCHANGED <<NODE_ENV, inflight, appointments, revoked, loggedOut, users, patients, nextId, now, ticks, issued>>

\* createAuthContext (cookie transport) with the database answering: run for
\* every GraphQL request
CreateAuthContext(accessToken, refreshToken) ==
    CreateAuthContextLookup(accessToken, refreshToken, FALSE, FALSE)

\* Variant of LogoutBlacklist that revokes the access token only
LogoutBlacklistAccessOnly(accessToken, refreshToken) ==
    IF accessToken # NoToken
    THEN blacklistToken(blacklist, getTokenId(accessToken), now + LOGOUT_ACCESS_MS)
    ELSE blacklist

\* Variant of LogoutBlacklist that empties the store when no cookie is present
LogoutBlacklistClearing(accessToken, refreshToken) ==
    LET afterAccess ==
            IF accessToken # NoToken
            THEN blacklistToken(blacklist, getTokenId(accessToken), now + LOGOUT_ACCESS_MS)
            ELSE blacklist
    IN  IF refreshToken # NoToken
        THEN blacklistToken(afterAccess, getTokenId(refreshToken), now + LOGOUT_REFRESH_MS)
        ELSE IF accessToken # NoToken THEN afterAccess ELSE <<>>

\* Variant of LogoutBlacklist with the two lifetimes exchanged
LogoutBlacklistSwapped(accessToken, refreshToken) ==
    LET afterAccess ==
            IF accessToken # NoToken
            THEN blacklistToken(blacklist, getTokenId(accessToken), now + LOGOUT_REFRESH_MS)
            ELSE blacklist
    IN  IF refreshToken # NoToken
        THEN blacklistToken(afterAccess, getTokenId(refreshToken), now + LOGOUT_ACCESS_MS)
        ELSE afterAccess

\* The blacklist after Mutation.logout
LogoutBlacklist(accessToken, refreshToken) ==
    LET afterAccess ==
            IF accessToken # NoToken
            THEN blacklistToken(blacklist, getTokenId(accessToken), now + LOGOUT_ACCESS_MS)
            ELSE blacklist
    IN  IF refreshToken # NoToken
        THEN blacklistToken(afterAccess, getTokenId(refreshToken), now + LOGOUT_REFRESH_MS)
        ELSE afterAccess

\* Mutation.logout (auth.resolver.ts)
Logout(accessToken, refreshToken) ==
    /\ blacklist' = LogoutBlacklist(accessToken, refreshToken)
    /\ last' = [op |-> "logout",
                req |-> [accessToken |-> accessToken, refreshToken |-> refreshToken],
                result |-> TRUE, cookies |-> clearAuthCookies]
    /\ loggedOut' = loggedOut \cup
                        {[accessToken |-> accessToken, refreshToken |-> refreshToken]}
    /\ revoked' =
          LET afterAccess ==
                  IF accessToken # NoToken
                  THEN Recorded(revoked, getTokenId(accessToken),
                                now + LOGOUT_ACCESS_MS)
                  ELSE revoked
          IN  IF refreshToken # NoToken
              THEN Recorded(afterAccess, getTokenId(refreshToken),
                            now + LOGOUT_REFRESH_MS)
              ELSE afterAccess
    /\ UNCHANGED <<NODE_ENV, inflight, appointments, users, patients, nextId, now, ticks, issued>>

\* Variant of RefreshUser that keeps the e-mail and role the token carries
RefreshUserFromPayload(refreshToken) ==
    LET user == findById(refreshToken.payload.userId)
    IN  IF user = NoUser THEN NoUser
        ELSE [user EXCEPT !.email = refreshToken.payload.email,
                          !.role = refreshToken.payload.role]

\* Mutation.refreshToken: the user the new access token is issued for
RefreshUser(refreshToken) == findById(refreshToken.payload.userId)

\* Variant of RefreshToken that rotates: a successful refresh also issues and
\* sets a new refresh token and revokes the one presented
RefreshTokenRotating(refreshToken) ==
    LET vr == validateRefreshToken(refreshToken)
        user == RefreshUser(refreshToken)
        newAccessToken == generateAccessToken(user)
        newRefreshToken == generateRefreshToken(user)
        req == [refreshToken |-> refreshToken]
        failure(message, code) ==
            [op |-> "refreshToken", req |-> req, success |-> FALSE, user |-> NoUser,
             errors |-> <<[message |-> message, code |-> code]>>,
             newAccessToken |-> NoToken, cookies |-> <<>>]
    IN  IF refreshToken = NoToken
        THEN /\ last' = failure("Refresh token not found", "REFRESH_TOKEN_MISSING")
             /\ UNCHANGED <<NODE_ENV, inflight, appointments, revoked, loggedOut, users, patients, nextId, blacklist, now, ticks, issued>>
        ELSE IF ~vr.ok
        THEN /\ blacklist' = vr.blacklist
             /\ last' = failure("Invalid or expired refresh token", "INVALID_REFRESH_TOKEN")
             /\ UNCHANGED <<NODE_ENV, inflight, appointments, revoked, loggedOut, users, patients, nextId, now, ticks, issued>>
        ELSE IF user = NoUser
        THEN /\ blacklist' = vr.blacklist
             /\ last' = failure("User not found", "USER_NOT_FOUND")
             /\ UNCHANGED <<NODE_ENV, inflight, appointments, revoked, loggedOut, users, patients, nextId, now, ticks, issued>>
        ELSE /\ issued' = issued \cup {newAccessToken, newRefreshToken}
             /\ blacklist' = blacklistToken(vr.blacklist, getTokenId(refreshToken),
                                            now + LOGOUT_REFRESH_MS)
             /\ last' = [op |-> "refreshToken", req |-> req, success |-> TRUE,
                         user |-> user, errors |-> <<>>,
                         newAccessToken |-> newAccessToken,
                         cookies |-> <<setAccessTokenCookie(newAccessToken),
                                       setRefreshTokenCookie(newRefreshToken)>>]
             /\ UNCHANGED <<NODE_ENV, inflight, appointments, revoked, loggedOut, users, patients, nextId, now, ticks>>

\* Mutation.refreshToken (auth.resolver.ts)
RefreshToken(refreshToken) ==
    LET vr == validateRefreshToken(refreshToken)
        user == RefreshUser(refreshToken)
        newAccessToken == generateAccessToken(user)
        req == [refreshToken |-> refreshToken]
        failure(message, code) ==
            [op |-> "refreshToken", req |-> req, success |-> FALSE, user |-> NoUser,
             errors |-> <<[message |-> message, code |-> code]>>,
             newAccessToken |-> NoToken, cookies |-> <<>>]
    IN  IF refreshToken = NoToken
        THEN /\ last' = failure("Refresh token not found", "REFRESH_TOKEN_MISSING")
             /\ UNCHANGED <<NODE_ENV, inflight, appointments, revoked, loggedOut, users, patients, nextId, blacklist, now, ticks, issued>>
        ELSE IF ~vr.ok
        THEN /\ blacklist' = vr.blacklist
             /\ last' = failure("Invalid or expired refresh token", "INVALID_REFRESH_TOKEN")
             /\ UNCHANGED <<NODE_ENV, inflight, appointments, revoked, loggedOut, users, patients, nextId, now, ticks, issued>>
        ELSE IF user = NoUser
        THEN /\ blacklist' = vr.blacklist
             /\ last' = failure("User not found", "USER_NOT_FOUND")
             /\ UNCHANGED <<NODE_ENV, inflight, appointments, revoked, loggedOut, users, patients, nextId, now, ticks, issued>>
        ELSE /\ issued' = issued \cup {newAccessToken}
             /\ blacklist' = vr.blacklist
             /\ last' = [op |-> "refreshToken", req |-> req, success |-> TRUE,
                         user |-> user, errors |-> <<>>,
                         newAccessToken |-> newAccessToken,
                         cookies |-> <<setAccessTokenCookie(newAccessToken)>>]
             /\ UNCHANGED <<NODE_ENV, inflight, appointments, revoked, loggedOut, users, patients, nextId, now, ticks>>

\* UserService.update(id, {email})
UserUpdate(id, email) ==
    LET currentUser == findById(id)
        err == validateUniqueConstraints(email, currentUser.phone, id)
        updated == [currentUser EXCEPT !.email = toLowerCase(email)]
    IN  IF currentUser = NoUser
        THEN /\ last' = [op |-> "userUpdate", threw |-> "NotFoundError"]
             /\ UNCHANGED <<NODE_ENV, inflight, appointments, revoked, loggedOut, users, patients, nextId, blacklist, now, ticks, issued>>
        ELSE IF err # ""
        THEN /\ last' = [op |-> "userUpdate", threw |-> "ValidationError"]
             /\ UNCHANGED <<NODE_ENV, inflight, appointments, revoked, loggedOut, users, patients, nextId, blacklist, now, ticks, issued>>
        ELSE /\ users' = (users \ {currentUser}) \cup {updated}
             /\ last' = [op |-> "userUpdate", threw |-> ""]
             /\ UNCHANGED <<NODE_ENV, inflight, appointments, revoked, loggedOut, patients, nextId, blacklist, now, ticks, issued>>

\* UserService.delete(id)
UserDelete(id) ==
    LET user == findById(id)
    IN  IF user = NoUser
        THEN /\ last' = [op |-> "userDelete", threw |-> "NotFoundError"]
             /\ UNCHANGED <<NODE_ENV, inflight, appointments, revoked, loggedOut, users, patients, nextId, blacklist, now, ticks, issued>>
        ELSE /\ users' = users \ {user}
             /\ patients' = {p \in patients : p.userId # id}
             /\ last' = [op |-> "userDelete", threw |-> ""]
             /\ UNCHANGED <<NODE_ENV, inflight, appointments, revoked, loggedOut, nextId, blacklist, now, ticks, issued>>

\* PatientRepository.findByUserId
findByUserId(userId) == {p \in patients : p.userId = userId}

\* GuestService.createMinimalPatient: the row inserted
createMinimalPatient(userId) ==
    [id |-> Cardinality(patients) + 1, userId |-> userId]

\* Variant of CreateGuest that gives an existing user a new patient profile
\* on every call
CreateGuestAlwaysPatient(email, name, phone) ==
    LET input == [email |-> email, name |-> name, phone |-> phone]
        existingUser == findByEmail(email)
        created == UserServiceCreate([email |-> email, name |-> name,
                                      phone |-> phone, password |-> null])
    IN  IF existingUser # NoUser
        THEN /\ patients' = patients \cup {createMinimalPatient(existingUser.id)}
             /\ last' = [op |-> "createGuest", input |-> input, success |-> TRUE,
                         user |-> existingUser, errors |-> <<>>, calls |-> <<>>]
             /\ UNCHANGED <<NODE_ENV, inflight, appointments, revoked, loggedOut, users, nextId, blacklist, now, ticks, issued>>
        ELSE IF findByPhone(phone) # NoUser
        THEN /\ last' = [op |-> "createGuest", input |-> input, success |-> FALSE,
                         user |-> NoUser,
                         errors |-> <<[field |-> "phone",
                                       message |-> "Phone number already registered"]>>,
                         calls |-> <<>>]
             /\ UNCHANGED <<NODE_ENV, inflight, appointments, revoked, loggedOut, users, patients, nextId, blacklist, now, ticks, issued>>
        ELSE /\ nextId <= MaxUsers
             /\ users' = users \cup {created.user}
             /\ nextId' = nextId + 1
             /\ patients' = patients \cup {createMinimalPatient(created.user.id)}
             /\ last' = [op |-> "createGuest", input |-> input, success |-> TRUE,
                         user |-> created.user, errors |-> <<>>, calls |-> created.calls]
             /\ UNCHANGED <<NODE_ENV, inflight, appointments, revoked, loggedOut, blacklist, now, ticks, issued>>

\* GuestService.createGuestUserAndPatient
CreateGuest(email, name, phone) ==
    LET input == [email |-> email, name |-> name, phone |-> phone]
        existingUser == findByEmail(email)
        created == UserServiceCreate([email |-> email, name |-> name,
                                      phone |-> phone, password |-> null])
    IN  IF existingUser # NoUser
        THEN /\ patients' = IF findByUserId(existingUser.id) # {} THEN patients
                            ELSE patients \cup {createMinimalPatient(existingUser.id)}
             /\ last' = [op |-> "createGuest", input |-> input, success |-> TRUE,
                         user |-> existingUser, errors |-> <<>>, calls |-> <<>>]
             /\ UNCHANGED <<NODE_ENV, inflight, appointments, revoked, loggedOut, users, nextId, blacklist, now, ticks, issued>>
        ELSE IF findByPhone(phone) # NoUser
        THEN /\ last' = [op |-> "createGuest", input |-> input, success |-> FALSE,
                         user |-> NoUser,
                         errors |-> <<[field |-> "phone",
                                       message |-> "Phone number already registered"]>>,
                         calls |-> <<>>]
             /\ UNCHANGED <<NODE_ENV, inflight, appointments, revoked, loggedOut, users, patients, nextId, blacklist, now, ticks, issued>>
        ELSE /\ nextId <= MaxUsers
             /\ users' = users \cup {created.user}
             /\ nextId' = nextId + 1
             /\ patients' = patients \cup {createMinimalPatient(created.user.id)}
             /\ last' = [op |-> "createGuest", input |-> input, success |-> TRUE,
                         user |-> created.user, errors |-> <<>>, calls |-> created.calls]
             /\ UNCHANGED <<NODE_ENV, inflight, appointments, revoked, loggedOut, blacklist, now, ticks, issued>>

\* The setInterval callback of startCleanupJob
Sweep ==
    /\ now >= CLEANUP_INTERVAL
    /\ blacklist' = clearExpiredTokens(blacklist)
    /\ last' = [op |-> "sweep"]
    /\ UNCHANGED <<NODE_ENV, inflight, appointments, revoked, loggedOut, users, patients, nextId, now, ticks, issued>>

UserIds == 1..MaxUsers

\* createContext runs createAuthContext before any resolver of a request; the
\* guard is an action of its own here, and a resolver action is the resolver's
\* code alone, so a request is a CreateAuthContext step followed by a
\* resolver step.  The registration and login rules do not depend on the
\* clock or the blacklist, and the session rules need only one credential,
\* so each family of requests is also explored on its own: NextAccounts with
\* every input, NextSession with the clock, the sweep and every cookie pair.

\* Requests that touch the user table, with every input
NextAccounts ==
    \/ \E e \in Emails, n \in Names, ph \in Phones, pw \in Passwords, s \in Salts :
          Step /\ Register(e, n, ph, pw, s)
    \/ \E e \in Emails, pw \in Passwords : Step /\ Login(e, pw)
    \/ \E e \in Emails, n \in Names, ph \in Phones : Step /\ CreateGuest(e, n, ph)
    \/ \E id \in UserIds, e \in Emails : Step /\ UserUpdate(id, e)
    \/ \E id \in UserIds : Step /\ UserDelete(id)

\* Inputs of the session scenarios: one credential, two addresses
SessionEmails == {"a@x.com", "b@x.com"}
SessionPhones == {"+1"}
SessionPasswords == {"password1"}

\* Requests of a session's life, the clock and the sweep
NextSession ==
    \/ Step /\ Tick
    \/ Step /\ Sweep
    \/ \E e \in SessionEmails, n \in Names, ph \in SessionPhones,
          pw \in SessionPasswords, s \in Salts : Step /\ Register(e, n, ph, pw, s)
    \/ \E e \in SessionEmails, pw \in SessionPasswords : Step /\ Login(e, pw)
    \/ \E at \in Presentable, rt \in Presentable : Step /\ CreateAuthContext(at, rt)
    \/ \E at \in Presentable, rt \in Presentable : Step /\ Logout(at, rt)
    \/ \E rt \in Presentable : Step /\ RefreshToken(rt)
    \/ \E id \in UserIds, e \in SessionEmails : Step /\ UserUpdate(id, e)
    \/ \E id \in UserIds : Step /\ UserDelete(id)

Next == NextAccounts \/ NextSession

\* A production deployment
InitProduction == Init /\ NODE_ENV = "production"

Spec == Init /\ [][Next]_vars
SpecAccounts == InitProduction /\ [][NextAccounts]_vars
SpecSession == InitProduction /\ [][NextSession]_vars
----------------------------------------------------------------------------
\* The revocation store on its own: its methods as the requests that run
\* concurrently call them.  Every method is synchronous, so a call runs to
\* completion before any other callback; concurrency is the free interleaving
\* of whole calls, of the setInterval sweep and of the clock.

TokenIds == {"id1", "id2"}

\* expiresAt as the callers compute it, and an entry that ends this instant
ExpiryOffsets == {0, LOGOUT_ACCESS_MS, LOGOUT_REFRESH_MS}

\* tokenBlacklist.blacklistToken(tokenId, expiresAt)
StoreBlacklistToken(tokenId, expiresAt) ==
    /\ blacklist' = blacklistToken(blacklist, tokenId, expiresAt)
    /\ revoked' = Recorded(revoked, tokenId, expiresAt)
    /\ last' = [op |-> "blacklistToken", tokenId |-> tokenId, expiresAt |-> expiresAt]
    /\ UNCHANGED <<NODE_ENV, inflight, appointments, loggedOut, users, patients, nextId, now, ticks, issued>>

\* tokenBlacklist.isTokenBlacklisted(tokenId)
StoreIsTokenBlacklisted(tokenId) ==
    /\ blacklist' = afterIsTokenBlacklisted(blacklist, tokenId)
    /\ last' = [op |-> "isTokenBlacklisted", tokenId |-> tokenId,
                result |-> isTokenBlacklisted(blacklist, tokenId)]
    /\ UNCHANGED <<NODE_ENV, inflight, appointments, revoked, loggedOut, users, patients, nextId, now, ticks, issued>>

NextStore ==
    \/ Step /\ Tick
    \/ Step /\ Sweep
    \/ \E id \in TokenIds, d \in ExpiryOffsets : Step /\ StoreBlacklistToken(id, now + d)
    \/ \E id \in TokenIds : Step /\ StoreIsTokenBlacklisted(id)

\* The same calls and clock with the cleanup job never running
NextStoreNoSweep ==
    \/ Step /\ Tick
    \/ \E id \in TokenIds, d \in ExpiryOffsets : Step /\ StoreBlacklistToken(id, now + d)
    \/ \E id \in TokenIds : Step /\ StoreIsTokenBlacklisted(id)

SpecStoreNoSweep == InitProduction /\ [][NextStoreNoSweep]_vars

SpecStore == InitProduction /\ [][NextStore]_vars

----------------------------------------------------------------------------
\* Guard resolution and the resolver guards

ADMIN_SECRET_KEY == "ADMIN_SECRET_KEY"

\* A cookie value that is no JWT at all
MalformedToken == [payload |-> [none |-> TRUE], sig |-> [malformed |-> TRUE]]

\* What a client can put in a cookie or after "Bearer"
GuardTokens == Presentable \cup {MalformedToken}

\* AdminService.createAdmin
CreateAdmin(email, name, phone, password, secretKey, salt) ==
    LET input == [email |-> email, name |-> name, phone |-> phone, secretKey |-> secretKey]
        admin == repoCreate([email |-> email, name |-> name, phone |-> phone,
                             password |-> hashPassword(password, salt),
                             role |-> "ADMIN"])
        failure(error, message) ==
            /\ last' = [op |-> "createAdmin", input |-> input, threw |-> error,
                        message |-> message, user |-> NoUser]
            /\ UNCHANGED <<NODE_ENV, inflight, appointments, revoked, loggedOut, users, patients, nextId, blacklist, now, ticks, issued>>
    IN  IF secretKey # ADMIN_SECRET_KEY
        THEN failure("AuthorizationError", "Invalid admin secret key")
        ELSE IF findByEmail(email) # NoUser
        THEN failure("ValidationError", "Email already registered")
        ELSE IF findByPhone(phone) # NoUser
        THEN failure("ValidationError", "Phone number already registered")
        ELSE /\ nextId <= MaxUsers
             /\ users' = users \cup {admin}
             /\ nextId' = nextId + 1
             /\ last' = [op |-> "createAdmin", input |-> input, threw |-> "",
                         message |-> "", user |-> admin]
             /\ UNCHANGED <<NODE_ENV, inflight, appointments, revoked, loggedOut, patients, blacklist, now, ticks, issued>>

\* The Authorization header, split at its spaces; NoHeader when it is not sent
NoHeader == <<>>
Headers ==
    {NoHeader} \cup {<<scheme, t>> : scheme \in {"Bearer", "bearer", "Basic"},
                                     t \in GuardTokens \ {NoToken}}
               \cup {<<"Bearer">>}

\* extractTokenFromHeader
extractTokenFromHeader(authHeader) ==
    IF authHeader = NoHeader THEN NoToken
    ELSE IF Len(authHeader) # 2 \/ authHeader[1] \notin {"Bearer", "bearer"}
    THEN NoToken
    ELSE authHeader[2]

\* Variant of HeaderAuthContext that hands the token on when its subject has
\* no user record
HeaderAuthContextKeepsToken(authHeader, lookupFails) ==
    LET token == extractTokenFromHeader(authHeader)
    IN  IF token = NoToken THEN Unauthenticated
        ELSE IF ~validateToken(token) THEN Unauthenticated
        ELSE IF lookupFails THEN Unauthenticated
        ELSE IF findById(token.payload.userId) = NoUser
        THEN [user |-> NoUser, token |-> token, isAuthenticated |-> FALSE]
        ELSE [user |-> findById(token.payload.userId), token |-> token,
              isAuthenticated |-> TRUE]

\* createAuthContext (header transport, auth.middleware.ts): the context
HeaderAuthContext(authHeader, lookupFails) ==
    LET token == extractTokenFromHeader(authHeader)
    IN  IF token = NoToken THEN Unauthenticated
        ELSE IF ~validateToken(token) THEN Unauthenticated
        ELSE IF lookupFails THEN Unauthenticated
        ELSE IF findById(token.payload.userId) = NoUser THEN Unauthenticated
        ELSE [user |-> findById(token.payload.userId), token |-> token,
              isAuthenticated |-> TRUE]

\* createAuthContext (header transport) as a request
CreateAuthContextHeader(authHeader, lookupFails) ==
    /\ last' = [op |-> "createAuthContextHeader", header |-> authHeader,
                threw |-> FALSE, lookupFails |-> lookupFails,
                ctx |-> HeaderAuthContext(authHeader, lookupFails)]
    /\ UNCHANGED <<NODE_ENV, inflight, appointments, revoked, loggedOut, users, patients, nextId, blacklist, now, ticks, issued>>

\* requireAuth: the error thrown ("" when none) and the user returned
requireAuth(auth) ==
    IF ~auth.isAuthenticated \/ auth.user = NoUser
    THEN [threw |-> "AuthenticationError", message |-> "Authentication required",
          user |-> NoUser]
    ELSE [threw |-> "", message |-> "", user |-> auth.user]

\* Variant of requireAdmin that looks at the role first
requireAdminRoleFirst(auth) ==
    IF auth.user = NoUser \/ auth.user.role # "ADMIN"
    THEN [threw |-> "AuthorizationError", message |-> "Admin access required",
          user |-> NoUser]
    ELSE requireAuth(auth)

\* requireAdmin
requireAdmin(auth) ==
    LET r == requireAuth(auth)
    IN  IF r.threw # "" THEN r
        ELSE IF r.user.role # "ADMIN"
        THEN [threw |-> "AuthorizationError", message |-> "Admin access required",
              user |-> NoUser]
        ELSE r

\* A resolver behind requireAdmin, run on the context the guard just built
RequireAdmin ==
    /\ last.op \in {"createAuthContext", "createAuthContextHeader"}
    /\ ~last.threw
    /\ last' = [op |-> "requireAdmin", auth |-> last.ctx,
                result |-> requireAdmin(last.ctx)]
    /\ UNCHANGED <<NODE_ENV, inflight, appointments, revoked, loggedOut, users, patients, nextId, blacklist, now, ticks, issued>>

GuardSecretKeys == {ADMIN_SECRET_KEY, "guess"}

NextGuard ==
    \/ Step /\ Tick
    \/ \E s \in Salts : Step /\ Register("a@x.com", "A", "+1", "password1", s)
    \/ \E k \in GuardSecretKeys, s \in Salts :
          Step /\ CreateAdmin("b@x.com", "A", "+2", "password1", k, s)
    \/ Step /\ Login("b@x.com", "password1")
    \/ \E t \in issued : Step /\ (Logout(t, NoToken) \/ Logout(NoToken, t))
    \/ \E id \in UserIds : Step /\ UserDelete(id)
    \/ \E at \in GuardTokens, rt \in GuardTokens, f1 \in BOOLEAN, f2 \in BOOLEAN :
          Step /\ CreateAuthContextLookup(at, rt, f1, f2)
    \/ \E h \in Headers, f \in BOOLEAN : Step /\ CreateAuthContextHeader(h, f)
    \/ Step /\ RequireAdmin

SpecGuard == InitProduction /\ [][NextGuard]_vars

----------------------------------------------------------------------------
\* The requests that set or clear cookies, in each environment

NextCookies ==
    \/ \E s \in Salts : Step /\ Register("a@x.com", "A", "+1", "password1", s)
    \/ \E pw \in {"password1", "password2"} : Step /\ Login("a@x.com", pw)
    \/ \E t \in Presentable :
          Step /\ (CreateAuthContext(t, NoToken) \/ CreateAuthContext(NoToken, t))
    \/ \E t \in Presentable : Step /\ (Logout(t, NoToken) \/ Logout(NoToken, t))
    \/ \E rt \in Presentable : Step /\ RefreshToken(rt)

SpecCookies == Init /\ [][NextCookies]_vars

----------------------------------------------------------------------------
\* The refresh flow of one account: its tokens presented to the refreshToken
\* mutation and to the guard, alone in either cookie, while the clock runs,
\* sessions are logged out and the account is deleted

NextRefresh ==
    \/ Step /\ Tick
    \/ \E s \in Salts : Step /\ Register("a@x.com", "A", "+1", "password1", s)
    \/ \E t \in issued : Step /\ (Logout(t, NoToken) \/ Logout(NoToken, t))
    \/ \E id \in UserIds : Step /\ UserDelete(id)
    \/ \E rt \in Presentable : Step /\ RefreshToken(rt)
    \/ \E t \in Presentable :
          Step /\ (CreateAuthContext(t, NoToken) \/ CreateAuthContext(NoToken, t))

SpecRefresh == InitProduction /\ [][NextRefresh]_vars

----------------------------------------------------------------------------
\* Logout with whatever the cookies carry.  Mutation.logout reads the two
\* cookies and blacklists their identifiers without verifying them, so a
\* cookie may hold any string, among them one that ends with the last 32
\* characters of an issued token.

\* Another payload in front of the token's signature: a string that differs
\* from the token and ends with the same 32 characters
SplicedToken(token) == [payload |-> ForgedToken.payload, sig |-> token.sig]

\* What a logout request can carry in a cookie
LogoutCookies == Presentable \cup {SplicedToken(t) : t \in issued}

NextRevocation ==
    \/ Step /\ Tick
    \/ Step /\ Sweep
    \/ \E e \in SessionEmails, s \in Salts :
          Step /\ Register(e, "A", "+1", "password1", s)
    \/ \E c \in LogoutCookies : Step /\ (Logout(c, NoToken) \/ Logout(NoToken, c))
    \/ \E rt \in issued : Step /\ RefreshToken(rt)

SpecRevocation == InitProduction /\ [][NextRevocation]_vars

----------------------------------------------------------------------------
\* AppointmentService.  A row keeps the fields the business rules read and
\* write: patient, schedule, status and cancellationReason.

AppointmentIds == 1..MaxAppointments
NoAppointment == [none |-> TRUE]

\* An absent optional Date
NoDate == -1

\* Strings that reach String.prototype.trim are sequences of characters
Reasons == {<<>>, <<" ">>, <<" ", "\t">>, <<"x">>, <<" ", "x", " ">>}

\* Characters String.prototype.trim strips
WhiteSpace == {" ", "\t"}

RECURSIVE trimStart(_)
trimStart(s) == IF s # <<>> /\ Head(s) \in WhiteSpace THEN trimStart(Tail(s)) ELSE s

RECURSIVE trimEnd(_)
trimEnd(s) ==
    IF s # <<>> /\ s[Len(s)] \in WhiteSpace THEN trimEnd(SubSeq(s, 1, Len(s) - 1)) ELSE s

\* String.prototype.trim
trim(s) == trimEnd(trimStart(s))

\* PatientRepository.findById
patientRepositoryFindById(id) == {p \in patients : p.id = id}

\* AppointmentRepository.findById
appointmentRepositoryFindById(id) ==
    IF \E a \in appointments : a.id = id
    THEN CHOOSE a \in appointments : a.id = id ELSE NoAppointment

\* The row after prisma.appointment.update({where: {id}, data})
UpdatedRow(row, data) ==
    [f \in DOMAIN row |-> IF f \in DOMAIN data THEN data[f] ELSE row[f]]

\* AppointmentRepository.update: the table it leaves
appointmentRepositoryUpdate(id, data) ==
    {IF a.id = id THEN UpdatedRow(a, data) ELSE a : a \in appointments}

\* new NotFoundError("Appointment", id), as the catch blocks report it
appointmentNotFound(id) ==
    <<[message |-> <<"Appointment with id '", id, "' not found">>]>>

scheduleInPast ==
    <<[field |-> "schedule", message |-> "Appointment schedule must be in the future"]>>

\* An AppointmentResult without success, and nothing written
AppointmentFailure(op, id, input, errors) ==
    /\ last' = [op |-> op, id |-> id, input |-> input, success |-> FALSE,
                errors |-> errors, calls |-> <<>>, appointment |-> NoAppointment]
    /\ UNCHANGED <<NODE_ENV, inflight, appointments, revoked, loggedOut, users, patients, nextId, blacklist, now, ticks, issued>>

\* An AppointmentResult with success after one appointmentRepository.update
AppointmentUpdated(op, id, input, data) ==
    /\ appointments' = appointmentRepositoryUpdate(id, data)
    /\ last' = [op |-> op, id |-> id, input |-> input, success |-> TRUE,
                errors |-> <<>>,
                calls |-> <<[fn |-> "appointmentRepository.update", id |-> id,
                             data |-> data]>>,
                appointment |-> UpdatedRow(appointmentRepositoryFindById(id), data)]
    /\ UNCHANGED <<NODE_ENV, inflight, revoked, loggedOut, users, patients, nextId, blacklist, now, ticks, issued>>

\* AppointmentService.create
AppointmentCreate(patientId, schedule) ==
    LET input == [patientId |-> patientId, schedule |-> schedule]
        row == [id |-> Cardinality(appointments) + 1, patientId |-> patientId,
                schedule |-> schedule, status |-> "PENDING",
                cancellationReason |-> <<>>]
    IN  IF patientRepositoryFindById(patientId) = {}
        THEN AppointmentFailure("create", 0, input,
                 <<[field |-> "patientId", message |-> "Patient not found"]>>)
        ELSE IF schedule <= now
        THEN AppointmentFailure("create", 0, input, scheduleInPast)
        ELSE /\ Cardinality(appointments) < MaxAppointments
             /\ appointments' = appointments \cup {row}
             /\ last' = [op |-> "create", id |-> row.id, input |-> input,
                         success |-> TRUE, errors |-> <<>>,
                         calls |-> <<[fn |-> "appointmentRepository.create"]>>,
                         appointment |-> row]
             /\ UNCHANGED <<NODE_ENV, inflight, revoked, loggedOut, users, patients, nextId, blacklist, now, ticks, issued>>

\* AppointmentService.update: updateData carries the fields of the input
\* that are truthy
AppointmentUpdate(id, input) ==
    LET given == {f \in {"schedule", "status", "cancellationReason"} :
                     \/ f = "schedule" /\ input.schedule # NoDate
                     \/ f = "status" /\ Truthy(input.status)
                     \/ f = "cancellationReason" /\ input.cancellationReason # <<>>}
        updateData == [f \in given |-> input[f]]
    IN  IF appointmentRepositoryFindById(id) = NoAppointment
        THEN AppointmentFailure("update", id, input, appointmentNotFound(id))
        ELSE IF input.schedule # NoDate /\ input.schedule <= now
        THEN AppointmentFailure("update", id, input, scheduleInPast)
        ELSE AppointmentUpdated("update", id, input, updateData)

\* Variant of AppointmentSchedule that accepts the present instant
AppointmentScheduleNowAllowed(id, schedule) ==
    LET appointment == appointmentRepositoryFindById(id)
    IN  IF appointment = NoAppointment
        THEN AppointmentFailure("schedule", id, schedule, appointmentNotFound(id))
        ELSE IF appointment.status = "CANCELLED"
        THEN AppointmentFailure("schedule", id, schedule,
                 <<[message |-> "Cannot schedule a cancelled appointment"]>>)
        ELSE IF schedule < now
        THEN AppointmentFailure("schedule", id, schedule, scheduleInPast)
        ELSE AppointmentUpdated("schedule", id, schedule,
                 [schedule |-> schedule, status |-> "SCHEDULED"])

\* AppointmentService.schedule
AppointmentSchedule(id, schedule) ==
    LET appointment == appointmentRepositoryFindById(id)
    IN  IF appointment = NoAppointment
        THEN AppointmentFailure("schedule", id, schedule, appointmentNotFound(id))
        ELSE IF appointment.status = "CANCELLED"
        THEN AppointmentFailure("schedule", id, schedule,
                 <<[message |-> "Cannot schedule a cancelled appointment"]>>)
        ELSE IF schedule <= now
        THEN AppointmentFailure("schedule", id, schedule, scheduleInPast)
        ELSE AppointmentUpdated("schedule", id, schedule,
                 [schedule |-> schedule, status |-> "SCHEDULED"])

\* Variant of AppointmentCancel that tests the reason without trimming it
AppointmentCancelUntrimmed(id, reason) ==
    LET appointment == appointmentRepositoryFindById(id)
    IN  IF appointment = NoAppointment
        THEN AppointmentFailure("cancel", id, reason, appointmentNotFound(id))
        ELSE IF appointment.status = "CANCELLED"
        THEN AppointmentFailure("cancel", id, reason,
                 <<[message |-> "Appointment is already cancelled"]>>)
        ELSE IF reason = <<>>
        THEN AppointmentFailure("cancel", id, reason,
                 <<[field |-> "cancellationReason",
                    message |-> "Cancellation reason is required"]>>)
        ELSE AppointmentUpdated("cancel", id, reason,
                 [status |-> "CANCELLED", cancellationReason |-> reason])

\* AppointmentService.cancel
AppointmentCancel(id, reason) ==
    LET appointment == appointmentRepositoryFindById(id)
    IN  IF appointment = NoAppointment
        THEN AppointmentFailure("cancel", id, reason, appointmentNotFound(id))
        ELSE IF appointment.status = "CANCELLED"
        THEN AppointmentFailure("cancel", id, reason,
                 <<[message |-> "Appointment is already cancelled"]>>)
        ELSE IF reason = <<>> \/ Len(trim(reason)) = 0
        THEN AppointmentFailure("cancel", id, reason,
                 <<[field |-> "cancellationReason",
                    message |-> "Cancellation reason is required"]>>)
        ELSE AppointmentUpdated("cancel", id, reason,
                 [status |-> "CANCELLED", cancellationReason |-> reason])

\* Dates around the present instant
ScheduleDates == {d \in {now - 1, now, now + 1} : d >= 0}

AppointmentStatuses == {"PENDING", "SCHEDULED", "CANCELLED"}

\* UpdateAppointmentInput: a new status, a new schedule, or neither
UpdateInputs ==
    {[schedule |-> d, status |-> st, cancellationReason |-> <<>>] :
        d \in {NoDate, now, now + 1}, st \in AppointmentStatuses \cup {null}}

NextAppointments ==
    \/ Step /\ Tick
    \/ Step /\ CreateGuest("a@x.com", "A", "+1")
    \/ \E p \in {1, 2}, d \in ScheduleDates : Step /\ AppointmentCreate(p, d)
    \/ \E id \in AppointmentIds, input \in UpdateInputs :
          Step /\ AppointmentUpdate(id, input)
    \/ \E id \in AppointmentIds, d \in ScheduleDates :
          Step /\ AppointmentSchedule(id, d)
    \/ \E id \in AppointmentIds, r \in Reasons : Step /\ AppointmentCancel(id, r)

SpecAppointments == InitProduction /\ [][NextAppointments]_vars

----------------------------------------------------------------------------
\* Account creation, one await at a time.  A call runs from one await to the
\* next without interruption; at an await any other call may run.  Each step
\* below is one awaited repository or bcrypt call together with the code up
\* to the next await.  The lookups are prisma findUnique on email, phone and
\* userId, so these columns carry unique indexes: an insert that repeats one
\* is rejected by the database.

CallKinds == {"register", "createGuest", "createAdmin"}
CallEmails == {"a@x.com", "b@x.com"}
CallPhones == {"+1", "+2"}

\* The first await of each operation
FirstAwait(kind) ==
    CASE kind = "register" -> "bcrypt.hash"
      [] kind = "createGuest" -> "guest.findByEmail"
      [] kind = "createAdmin" -> "findByEmail"

\* A request arrives: register with an acceptable password, createAdmin with
\* the right secret key, or createGuestUserAndPatient
CallStart(kind, email, phone) ==
    /\ Len(inflight) < MaxCalls
    /\ inflight' = Append(inflight, [kind |-> kind, email |-> email, phone |-> phone,
                                     at |-> FirstAwait(kind), createCalled |-> FALSE,
                                     outcome |-> ""])
    /\ last' = [op |-> "callStart", kind |-> kind]
    /\ UNCHANGED <<NODE_ENV, appointments, revoked, loggedOut, users, patients, nextId, blacklist, now, ticks, issued, steps>>

\* The row userRepository.create is asked to insert
CallRow(call) ==
    repoCreate([email |-> call.email, name |-> "A", phone |-> call.phone,
                password |-> IF call.kind = "createGuest" THEN null
                             ELSE hashPassword("password1", "s1"),
                role |-> IF call.kind = "createAdmin" THEN "ADMIN" ELSE "PATIENT"])

\* The call moves on to its next await, or ends with an outcome
Moved(i, at, outcome) ==
    [inflight EXCEPT ![i].at = at, ![i].outcome = outcome]

\* await userRepository.create(userData)
AwaitCreate(i) ==
    LET call == inflight[i]
        row == CallRow(call)
        duplicate == \E u \in users : u.email = row.email \/ u.phone = row.phone
    IN  IF duplicate
        THEN /\ inflight' = [Moved(i, "done", "UniqueConstraintError")
                               EXCEPT ![i].createCalled = TRUE]
             /\ UNCHANGED <<users, nextId>>
        ELSE /\ nextId <= MaxUsers
             /\ users' = users \cup {row}
             /\ nextId' = nextId + 1
             /\ inflight' = [Moved(i, IF call.kind = "createGuest"
                                      THEN "createPatient" ELSE "done",
                                   IF call.kind = "createGuest" THEN "" ELSE "created")
                               EXCEPT ![i].createCalled = TRUE]

\* One call resumes from the await it stands at
CallStep(i) ==
    LET call == inflight[i]
        at == call.at
        byEmail == findByEmail(call.email)
        byPhone == findByPhone(call.phone)
    IN  /\ at # "done"
        /\ last' = [op |-> "callStep", call |-> i, at |-> at]
        /\ UNCHANGED <<NODE_ENV, appointments, revoked, loggedOut, blacklist, now, ticks, issued, steps>>
        /\ CASE at = "bcrypt.hash" ->
                  /\ inflight' = Moved(i, IF call.kind = "register"
                                          THEN "findByEmail" ELSE "create", "")
                  /\ UNCHANGED <<users, patients, nextId>>
             [] at = "findByEmail" ->
                  /\ inflight' = IF byEmail # NoUser
                                 THEN Moved(i, "done", "ValidationError")
                                 ELSE Moved(i, "findByPhone", "")
                  /\ UNCHANGED <<users, patients, nextId>>
             [] at = "findByPhone" ->
                  /\ inflight' = IF byPhone # NoUser
                                 THEN Moved(i, "done", "ValidationError")
                                 ELSE Moved(i, IF call.kind = "createAdmin"
                                               THEN "bcrypt.hash" ELSE "create", "")
                  /\ UNCHANGED <<users, patients, nextId>>
             [] at = "create" ->
                  /\ AwaitCreate(i)
                  /\ UNCHANGED patients
             [] at = "guest.findByEmail" ->
                  /\ inflight' = IF byEmail # NoUser
                                 THEN Moved(i, "guest.findByUserId", "")
                                 ELSE Moved(i, "guest.findByPhone", "")
                  /\ UNCHANGED <<users, patients, nextId>>
             [] at = "guest.findByUserId" ->
                  /\ inflight' = IF findByUserId(byEmail.id) # {}
                                 THEN Moved(i, "done", "existing")
                                 ELSE Moved(i, "createPatient", "")
                  /\ UNCHANGED <<users, patients, nextId>>
             [] at = "guest.findByPhone" ->
                  /\ inflight' = IF byPhone # NoUser
                                 THEN Moved(i, "done", "phoneTaken")
                                 ELSE Moved(i, "findByEmail", "")
                  /\ UNCHANGED <<users, patients, nextId>>
             [] at = "createPatient" ->
                  /\ IF findByUserId(byEmail.id) # {}
                     THEN /\ inflight' = Moved(i, "done", "UniqueConstraintError")
                          /\ UNCHANGED patients
                     ELSE /\ inflight' = Moved(i, "done", "created")
                          /\ patients' = patients \cup {createMinimalPatient(byEmail.id)}
                  /\ UNCHANGED <<users, nextId>>

NextConcurrent ==
    \/ \E k \in CallKinds, e \in CallEmails, ph \in CallPhones : CallStart(k, e, ph)
    \/ \E i \in DOMAIN inflight : CallStep(i)

SpecConcurrent == InitProduction /\ [][NextConcurrent]_vars

----------------------------------------------------------------------------
\* Vocabulary of the properties

\* jwt.verify would not reject the token for its age
NotExpired(token) == (now \div 1000) < token.payload.exp

\* Tokens the server signed with the access secret / with the refresh secret
IsAccessSigned(token) == token # NoToken /\ token.sig = HMAC(token.payload, JWT_SECRET)
IsRefreshSigned(token) ==
    token # NoToken /\ token.sig = HMAC(token.payload, JWT_REFRESH_SECRET)

\* The identity claims a token carries
Claims(token) ==
    [userId |-> token.payload.userId, email |-> token.payload.email,
     role |-> token.payload.role]

CallsTo(calls, fn) == {i \in 1..Len(calls) : calls[i].fn = fn}

AlreadyRegistered == {"Email already registered", "Phone number already registered"}

----------------------------------------------------------------------------
\* C1: after logout(accessToken, refreshToken), guard resolution presenting
\* those two tokens returns the unauthenticated context for as long as the
\* tokens have not expired.
C1_LoggedOutTokensUnauthenticated ==
    (/\ last.op = "createAuthContext"
     /\ last.req \in loggedOut
     /\ last.req.accessToken \in issued
     /\ last.req.refreshToken \in issued
     /\ NotExpired(last.req.accessToken)
     /\ NotExpired(last.req.refreshToken))
    => last.ctx = Unauthenticated

\* C2: a token passed to logout in the cookie of its kind is reported
\* blacklisted at every instant up to the token's own expiry.
C2_RevokedUntilExpiry ==
    \A req \in loggedOut :
        /\ (req.accessToken \in issued /\ IsAccessSigned(req.accessToken)
                /\ NotExpired(req.accessToken))
           => isTokenBlacklisted(blacklist, getTokenId(req.accessToken))
        /\ (req.refreshToken \in issued /\ IsRefreshSigned(req.refreshToken)
                /\ NotExpired(req.refreshToken))
           => isTokenBlacklisted(blacklist, getTokenId(req.refreshToken))

\* C3: every failed login returns the one error "Invalid email or password",
\* whatever the cause (unknown e-mail, passwordless account, wrong password).
C3_LoginFailureUniform ==
    (last.op = "login" /\ ~last.success)
    => last.errors = <<invalidCredentialsError>>

\* C4: login succeeds, and hands out tokens, exactly when a user with the
\* e-mail exists, has a password hash, and the password verifies against it.
C4_LoginIffCredentials ==
    last.op = "login" =>
        LET matching == {u \in users :
                            /\ u.email = toLowerCase(last.input.email)
                            /\ Truthy(u.password)
                            /\ comparePasswords(last.input.password, u.password)}
        IN  /\ last.success <=> (matching # {})
            /\ last.success => /\ last.user \in matching
                               /\ last.token \in issued
                               /\ Len(last.cookies) = 2
                               /\ \A i \in 1..2 : last.cookies[i].value \in issued
            /\ ~last.success => /\ last.token = NoToken
                                /\ last.cookies = <<>>

\* C4 witness: a passwordless account tried to log in and got nothing
C4_Witness ==
    /\ last.op = "login"
    /\ ~last.success
    /\ \E u \in users : u.email = toLowerCase(last.input.email) /\ u.password = null

C7_ClaimsEqualRefreshClaims ==
    (last.op = "refreshToken" /\ last.success)
    => Claims(last.newAccessToken) = Claims(last.req.refreshToken)

\* C7 amended: a successful refresh returns an access token whose subject is
\* the refresh token's subject and whose e-mail and role are those of the
\* user record now stored for that subject; they equal the refresh token's
\* claims whenever that record still carries them.
C7_ClaimsOfCurrentUser ==
    (last.op = "refreshToken" /\ last.success)
    => LET subject == last.req.refreshToken.payload.userId
           record == findById(subject)
       IN  /\ record # NoUser
           /\ last.user = record
           /\ Claims(last.newAccessToken) = TokenPayload(record)
           /\ last.newAccessToken.payload.userId = subject
           /\ TokenPayload(record) = Claims(last.req.refreshToken)
              => Claims(last.newAccessToken) = Claims(last.req.refreshToken)

\* C7 witness: a refresh succeeded after the subject's e-mail had changed
C7_Witness ==
    /\ last.op = "refreshToken"
    /\ last.success
    /\ last.newAccessToken.payload.email # last.req.refreshToken.payload.email

\* C8: register with a password shorter than 8 characters fails with the one
\* error on field "password", hashes nothing, creates nothing, and leaves the
\* user table as it was.
C8_ShortPasswordRejected ==
    [][(last'.op = "register" /\ Len(last'.input.password) < 8)
       => /\ ~last'.success
          /\ Len(last'.errors) = 1
          /\ last'.errors[1].field = "password"
          /\ CallsTo(last'.calls, "bcrypt.hash") = {}
          /\ CallsTo(last'.calls, "userRepository.create") = {}
          /\ users' = users
          /\ nextId' = nextId]_vars

\* C8 witness: a 7-character password was refused
C8_Witness ==
    /\ last.op = "register"
    /\ Len(last.input.password) = 7
    /\ ~last.success

\* C9: every userRepository.create made for register comes after the hash
\* call and carries the bcrypt digest of the password, never the plaintext;
\* no plaintext password is ever stored.
C9_HashedBeforePersist ==
    /\ last.op = "register" =>
          \A i \in CallsTo(last.calls, "userRepository.create") :
              /\ last.calls[i].arg.password # last.input.password
              /\ comparePasswords(last.input.password, last.calls[i].arg.password)
              /\ \E j \in CallsTo(last.calls, "bcrypt.hash") :
                    j < i /\ last.calls[j].arg = last.input.password
    /\ \A u \in users : u.password \notin Passwords

\* C9 witness: a registration reached the repository
C9_Witness ==
    /\ last.op = "register"
    /\ last.success
    /\ CallsTo(last.calls, "userRepository.create") # {}
    /\ last.user \in users

\* C10: register with an acceptable password fails with an "already
\* registered" error when a user with the same e-mail or the same phone
\* exists; the repository create is not called and no user is added.
C10_DuplicateRejected ==
    [][(/\ last'.op = "register"
        /\ Len(last'.input.password) >= 8
        /\ \E u \in users : \/ u.email = toLowerCase(last'.input.email)
                            \/ u.phone = last'.input.phone)
       => /\ ~last'.success
          /\ Len(last'.errors) = 1
          /\ last'.errors[1].message \in AlreadyRegistered
          /\ CallsTo(last'.calls, "userRepository.create") = {}
          /\ users' = users
          /\ nextId' = nextId]_vars

\* C10 witness: a registration was refused for its phone number alone
C10_Witness ==
    /\ last.op = "register"
    /\ ~last.success
    /\ last.errors[1].message = "Phone number already registered"
    /\ \A u \in users : u.email # toLowerCase(last.input.email)
----------------------------------------------------------------------------
\* C11: logout returns true for every pair of cookies, present or absent,
\* revoked before or not, and with neither cookie present it leaves the
\* revocation store as it was.
C11_LogoutAlwaysSucceeds ==
    [][last'.op = "logout"
       => /\ last'.result = TRUE
          /\ last'.cookies = clearAuthCookies
          /\ (last'.req.accessToken = NoToken /\ last'.req.refreshToken = NoToken)
             => blacklist' = blacklist]_vars

\* C11 witness: a logout without cookies ran while the store held an entry
C11_Witness ==
    /\ last.op = "logout"
    /\ last.req = [accessToken |-> NoToken, refreshToken |-> NoToken]
    /\ DOMAIN blacklist # {}

\* The identifiers of the cookies a logout request carried
PresentIds(req) ==
    {getTokenId(t) : t \in {req.accessToken, req.refreshToken} \ {NoToken}}

\* C12 as claimed: logout leaves one entry per cookie present and none for an
\* absent one; the access token's entry expires at now + 15 minutes and the
\* refresh token's at now + 7 days, each under that token's identifier.
C12_EntryPerTokenWithItsLifetime ==
    [][last'.op = "logout"
       => LET at == last'.req.accessToken
              rt == last'.req.refreshToken
          IN  /\ DOMAIN blacklist' = DOMAIN blacklist \cup PresentIds(last'.req)
              /\ \A id \in DOMAIN blacklist \ PresentIds(last'.req) :
                    blacklist'[id] = blacklist[id]
              /\ at # NoToken => blacklist'[getTokenId(at)] = now + LOGOUT_ACCESS_MS
              /\ rt # NoToken => blacklist'[getTokenId(rt)] = now + LOGOUT_REFRESH_MS]_vars

\* C12 amended: logout leaves one entry per identifier present and none for
\* an absent cookie; the refresh token's entry expires at now + 7 days, and
\* the access token's at now + 15 minutes unless the refresh cookie carries
\* the same identifier, in which case the one entry has the 7 day expiry.
C12_EntryPerIdentifier ==
    [][last'.op = "logout"
       => LET at == last'.req.accessToken
              rt == last'.req.refreshToken
          IN  /\ DOMAIN blacklist' = DOMAIN blacklist \cup PresentIds(last'.req)
              /\ \A id \in DOMAIN blacklist \ PresentIds(last'.req) :
                    blacklist'[id] = blacklist[id]
              /\ rt # NoToken => blacklist'[getTokenId(rt)] = now + LOGOUT_REFRESH_MS
              /\ (at # NoToken /\ (rt = NoToken \/ getTokenId(rt) # getTokenId(at)))
                 => blacklist'[getTokenId(at)] = now + LOGOUT_ACCESS_MS
              /\ (at # NoToken /\ rt # NoToken /\ getTokenId(rt) = getTokenId(at))
                 => blacklist'[getTokenId(at)] = now + LOGOUT_REFRESH_MS]_vars

\* C12 witness: a logout with two different tokens left two entries, 15
\* minutes and 7 days ahead
C12_Witness ==
    /\ last.op = "logout"
    /\ last.req.accessToken \in issued
    /\ last.req.refreshToken \in issued
    /\ getTokenId(last.req.accessToken) # getTokenId(last.req.refreshToken)
    /\ blacklist[getTokenId(last.req.accessToken)] = now + LOGOUT_ACCESS_MS
    /\ blacklist[getTokenId(last.req.refreshToken)] = now + LOGOUT_REFRESH_MS

\* C13: a lookup answers true exactly when the store holds an entry for the
\* identifier and the clock is not past its expiresAt; a lookup that finds an
\* entry past its expiresAt deletes it, and touches nothing else.
C13_ExpiredEntryAbsent ==
    [][last'.op = "isTokenBlacklisted"
       => LET id == last'.tokenId
              held == id \in DOMAIN blacklist
          IN  /\ last'.result <=> (held /\ now <= blacklist[id])
              /\ (held /\ now > blacklist[id]) => id \notin DOMAIN blacklist'
              /\ (held /\ now <= blacklist[id])
                 => id \in DOMAIN blacklist' /\ blacklist'[id] = blacklist[id]
              /\ ~held => id \notin DOMAIN blacklist'
              /\ \A other \in DOMAIN blacklist \ {id} :
                    other \in DOMAIN blacklist' /\ blacklist'[other] = blacklist[other]]_vars

\* C13 witness: a lookup, before any sweep could run, found an entry past its
\* expiresAt, answered false and deleted it
C13_Witness ==
    /\ last.op = "isTokenBlacklisted"
    /\ ~last.result
    /\ now < CLEANUP_INTERVAL
    /\ last.tokenId \in DOMAIN revoked
    /\ now > revoked[last.tokenId]
    /\ last.tokenId \notin DOMAIN blacklist

\* C14: whatever the order of the blacklistToken calls, the lookups, the
\* sweeps and the clock, every identifier revoked is reported blacklisted
\* while the expiresAt of its latest revocation has not passed.
C14_NoRevocationLost ==
    \A id \in DOMAIN revoked :
        ~(now > revoked[id]) => isTokenBlacklisted(blacklist, id)

\* C14 witness: two different identifiers were revoked, the sweep has just
\* run, and both entries are still in force
C14_Witness ==
    /\ last.op = "sweep"
    /\ DOMAIN revoked = TokenIds
    /\ \A id \in TokenIds : ~(now > revoked[id]) /\ id \in DOMAIN blacklist
    /\ \E id \in TokenIds : revoked[id] = now

\* The token, taken as a token signed under secret, leads to a user record:
\* it verifies, the lookup answers, and the subject has a record
LeadsToUser(token, secret, lookupFails) ==
    /\ token # NoToken
    /\ jwtVerify(token, secret)
    /\ ~lookupFails
    /\ \E u \in users : u.id = token.payload.userId

GuardOps == {"createAuthContext", "createAuthContextHeader"}

\* C15: guard resolution always returns a context, whatever the tokens are
\* (absent, malformed, forged, expired, revoked, valid) and whether the user
\* lookup answers or fails; the context is the unauthenticated one whenever
\* no presented token leads to a user record.
C15_GuardNeverFails ==
    /\ last.op \in GuardOps
       => /\ ~last.threw
          /\ last.ctx.isAuthenticated \in BOOLEAN
    /\ (/\ last.op = "createAuthContext"
        /\ ~LeadsToUser(last.req.accessToken, JWT_SECRET, last.lookupFails.access)
        /\ ~LeadsToUser(last.req.refreshToken, JWT_REFRESH_SECRET,
                        last.lookupFails.refresh))
       => last.ctx = Unauthenticated
    /\ (/\ last.op = "createAuthContextHeader"
        /\ ~LeadsToUser(extractTokenFromHeader(last.header), JWT_SECRET,
                        last.lookupFails))
       => last.ctx = Unauthenticated

\* C15 witness: both lookups failed for a request whose access token and
\* refresh token were valid, and the guard answered unauthenticated
C15_Witness ==
    /\ last.op = "createAuthContext"
    /\ last.lookupFails = [access |-> TRUE, refresh |-> TRUE]
    /\ LeadsToUser(last.req.accessToken, JWT_SECRET, FALSE)
    /\ LeadsToUser(last.req.refreshToken, JWT_REFRESH_SECRET, FALSE)
    /\ last.ctx = Unauthenticated
    /\ ~last.threw

\* C16: the guard authenticates by the access token when that token leads
\* to a user, and then sets no cookie, issues nothing and returns the
\* presented access token; it turns to the refresh token only otherwise, and
\* a new access token is issued and set as the access cookie exactly when
\* the request was authenticated through the refresh token.
C16_AccessFirstThenRefresh ==
    [][last'.op = "createAuthContext"
       => LET byAccess == LeadsToUser(last'.req.accessToken, JWT_SECRET,
                                      last'.lookupFails.access)
          IN  /\ byAccess => /\ last'.via = "access"
                             /\ last'.ctx.token = last'.req.accessToken
              /\ last'.via = "refresh" => ~byAccess
              /\ last'.via = "refresh"
                 <=> last'.cookies = <<setAccessTokenCookie(last'.ctx.token)>>
              /\ last'.via = "refresh"
                 => /\ last'.ctx.token \in issued'
                    /\ IsAccessSigned(last'.ctx.token)
                    /\ last'.ctx.token.payload.iat = now \div 1000
                    /\ last'.ctx.token # last'.req.refreshToken
              /\ last'.via # "refresh"
                 => /\ last'.cookies = <<>>
                    /\ issued' = issued]_vars

\* C16 witness: an expired access token came with a live refresh token, and
\* the guard issued a new access token and set it
C16_Witness ==
    /\ last.op = "createAuthContext"
    /\ last.via = "refresh"
    /\ last.req.accessToken \in issued
    /\ IsAccessSigned(last.req.accessToken)
    /\ ~NotExpired(last.req.accessToken)
    /\ Len(last.cookies) = 1
    /\ last.cookies[1].value = last.ctx.token
    /\ last.ctx.token # last.req.accessToken

\* C17: requireAdmin fails with AuthenticationError on an unauthenticated
\* context, with AuthorizationError on an authenticated context whose user
\* is no ADMIN, and returns the user of an authenticated ADMIN context.
C17_AuthenticationBeforeRole ==
    last.op = "requireAdmin"
    => LET auth == last.auth
           r == last.result
       IN  /\ (~auth.isAuthenticated \/ auth.user = NoUser)
              => r.threw = "AuthenticationError"
           /\ (auth.isAuthenticated /\ auth.user # NoUser)
              => IF auth.user.role = "ADMIN"
                 THEN r.threw = "" /\ r.user = auth.user
                 ELSE r.threw = "AuthorizationError"

\* C17 witness: requireAdmin refused an unauthenticated context
C17_Witness ==
    /\ last.op = "requireAdmin"
    /\ last.auth = Unauthenticated
    /\ last.result.threw = "AuthenticationError"

\* C17, the other two cases reached
C17_ReachedAdmin ==
    last.op = "requireAdmin" /\ last.result.threw = "" /\ last.result.user.role = "ADMIN"
C17_ReachedPatient ==
    last.op = "requireAdmin" /\ last.result.threw = "AuthorizationError"

\* C18: every access token the service issued verifies at the instant of its
\* issuance and fails verification at every time 15 minutes or more after it.
C18_AccessTokenLifetime ==
    \A t \in issued :
        IsAccessSigned(t)
        => /\ (now \div 1000 = t.payload.iat) => validateToken(t)
           /\ (now \div 1000 >= t.payload.iat + ACCESS_EXPIRES_IN) => ~validateToken(t)

\* The requests whose response may carry Set-Cookie headers
CookieOps == {"register", "login", "createAuthContext", "logout", "refreshToken"}

\* The cookies the last response set (not the ones it cleared)
CookiesSet ==
    IF last.op \in CookieOps
    THEN {last.cookies[i] : i \in {j \in 1..Len(last.cookies) :
                                        last.cookies[j].value # NoToken}}
    ELSE {}

\* C19: the access cookie is set to live the access lifetime, 15 minutes, and
\* the refresh cookie the refresh lifetime, 7 days, as Express reads maxAge.
C19_CookieMaxAge ==
    \A c \in CookiesSet :
        /\ c.name = "accessToken" => MaxAgeAttribute(c.options) = ACCESS_EXPIRES_IN
        /\ c.name = "refreshToken" => MaxAgeAttribute(c.options) = REFRESH_EXPIRES_IN

\* C20: in every environment each auth cookie set or cleared is httpOnly, is
\* secure in production, and is never sameSite "none" without secure.
C20_CookieFlags ==
    last.op \in CookieOps
    => \A i \in 1..Len(last.cookies) :
          LET o == last.cookies[i].options
          IN  /\ o.httpOnly = TRUE
              /\ NODE_ENV = "production" => o.secure = TRUE
              /\ o.sameSite = "none" => o.secure = TRUE
              /\ o.sameSite \in {"none", "lax"}

\* C20 witness: a development server set both cookies at login
C20_Witness ==
    /\ NODE_ENV = "development"
    /\ last.op = "login"
    /\ Len(last.cookies) = 2
    /\ \A i \in 1..2 : last.cookies[i].options.sameSite = "lax"

\* C20, the other cases reached: cookies cleared in production and in test
C20_ReachedProductionClear ==
    NODE_ENV = "production" /\ last.op = "logout" /\ Len(last.cookies) = 2
C20_ReachedTestSet ==
    NODE_ENV = "test" /\ last.op = "refreshToken" /\ Len(last.cookies) = 1

\* C21: a successful refresh issues and sets a new access token and nothing
\* else: the one cookie it sets is the access cookie, no revocation entry is
\* added, and the refresh token presented still passes validation afterwards;
\* a refresh token that is issued, unexpired and never revoked refreshes
\* again whenever its subject still has a record.
C21_RefreshDoesNotRotate ==
    [][last'.op = "refreshToken"
       => LET rt == last'.req.refreshToken
              nat == last'.newAccessToken
          IN  /\ last'.success
                 => /\ last'.cookies = <<setAccessTokenCookie(nat)>>
                    /\ \A i \in 1..Len(last'.cookies) :
                          last'.cookies[i].name # "refreshToken"
                    /\ issued' \ issued \subseteq {nat}
                    /\ IsAccessSigned(nat) /\ ~IsRefreshSigned(nat)
                    /\ DOMAIN blacklist' \subseteq DOMAIN blacklist
                    /\ \A id \in DOMAIN blacklist' : blacklist'[id] = blacklist[id]
                    /\ jwtVerify(rt, JWT_REFRESH_SECRET)
                    /\ ~isTokenBlacklisted(blacklist', getTokenId(rt))
              /\ (/\ rt \in issued
                  /\ IsRefreshSigned(rt)
                  /\ NotExpired(rt)
                  /\ getTokenId(rt) \notin DOMAIN revoked
                  /\ findById(rt.payload.userId) # NoUser)
                 => last'.success
              /\ (last.op = "refreshToken" /\ last.success /\ last.req = last'.req)
                 => last'.success]_vars

\* C21 witness: a refresh succeeded with a refresh token issued at an earlier
\* second, while another token's revocation entry was in the store
C21_Witness ==
    /\ last.op = "refreshToken"
    /\ last.success
    /\ last.newAccessToken.payload.iat > last.req.refreshToken.payload.iat
    /\ Len(last.cookies) = 1
    /\ DOMAIN blacklist # {}
    /\ getTokenId(last.req.refreshToken) \notin DOMAIN blacklist

\* C22: schedule(id, date) fails, with no repository update and the table as
\* it was, when the appointment does not exist, when it is CANCELLED, or when
\* date is not after the present instant; otherwise it makes one update that
\* sets the status to SCHEDULED and the schedule to date, and nothing else.
C22_ScheduleRules ==
    [][last'.op = "schedule"
       => LET id == last'.id
              date == last'.input
              rows == {a \in appointments : a.id = id}
          IN  IF rows = {} \/ (\E a \in rows : a.status = "CANCELLED") \/ date <= now
              THEN /\ ~last'.success
                   /\ Len(last'.errors) = 1
                   /\ last'.calls = <<>>
                   /\ appointments' = appointments
              ELSE /\ last'.success
                   /\ last'.errors = <<>>
                   /\ Len(last'.calls) = 1
                   /\ \A a \in rows :
                         LET scheduled == [a EXCEPT !.status = "SCHEDULED",
                                                    !.schedule = date]
                         IN  /\ appointments' = (appointments \ {a}) \cup {scheduled}
                             /\ last'.appointment = scheduled]_vars

\* C22 witness: a PENDING appointment was scheduled for a later instant
C22_Witness ==
    /\ last.op = "schedule"
    /\ last.success
    /\ \E a \in appointments :
          /\ a.id = last.id
          /\ a.status = "SCHEDULED"
          /\ a.schedule = last.input
          /\ a.schedule > now

\* C22, the refusals reached: a date equal to the present instant on a live
\* appointment, a cancelled appointment, an unknown id
C22_ReachedNotFuture ==
    /\ last.op = "schedule" /\ ~last.success /\ last.input = now
    /\ \E a \in appointments : a.id = last.id /\ a.status = "PENDING"
C22_ReachedCancelled ==
    /\ last.op = "schedule" /\ ~last.success /\ last.input > now
    /\ \E a \in appointments : a.id = last.id /\ a.status = "CANCELLED"
C22_ReachedUnknown ==
    /\ last.op = "schedule" /\ ~last.success /\ last.input > now
    /\ \A a \in appointments : a.id # last.id

\* The string has no character other than spaces and tabs
OnlySpaces(s) == \A i \in 1..Len(s) : s[i] = " " \/ s[i] = "\t"

\* C23: cancel(id, reason) fails, with no repository update and the table as
\* it was, when the appointment does not exist, when it is CANCELLED already,
\* or when reason is empty or all white space, the last with the one error on
\* field cancellationReason; otherwise it makes one update that sets the
\* status to CANCELLED and cancellationReason to reason as given.
C23_CancelRules ==
    [][last'.op = "cancel"
       => LET id == last'.id
              reason == last'.input
              rows == {a \in appointments : a.id = id}
              live == rows # {} /\ \A a \in rows : a.status # "CANCELLED"
          IN  IF ~live \/ OnlySpaces(reason)
              THEN /\ ~last'.success
                   /\ Len(last'.errors) = 1
                   /\ last'.calls = <<>>
                   /\ appointments' = appointments
                   /\ live => last'.errors[1].field = "cancellationReason"
                   /\ ~live => "field" \notin DOMAIN last'.errors[1]
              ELSE /\ last'.success
                   /\ last'.errors = <<>>
                   /\ Len(last'.calls) = 1
                   /\ \A a \in rows :
                         LET cancelled == [a EXCEPT !.status = "CANCELLED",
                                                    !.cancellationReason = reason]
                         IN  /\ appointments' = (appointments \ {a}) \cup {cancelled}
                             /\ last'.appointment = cancelled]_vars

\* C23 witness: a reason of white space alone was refused for a live appointment
C23_Witness ==
    /\ last.op = "cancel"
    /\ ~last.success
    /\ last.input # <<>>
    /\ OnlySpaces(last.input)
    /\ \E a \in appointments : a.id = last.id /\ a.status # "CANCELLED"
    /\ last.errors[1].field = "cancellationReason"

\* C23, the other cases reached: a cancellation that went through with its
\* reason stored untrimmed, and one refused for being the second
C23_ReachedCancelled ==
    /\ last.op = "cancel" /\ last.success /\ last.input = <<" ", "x", " ">>
    /\ \E a \in appointments :
          a.id = last.id /\ a.status = "CANCELLED" /\ a.cancellationReason = last.input
C23_ReachedTwice ==
    /\ last.op = "cancel" /\ ~last.success /\ ~OnlySpaces(last.input)
    /\ \E a \in appointments : a.id = last.id /\ a.status = "CANCELLED"

\* C29: an appointment whose status is CANCELLED keeps that status through
\* every AppointmentService operation.
C29_CancelledIsTerminal ==
    [][\A a \in appointments :
          a.status = "CANCELLED"
          => \A b \in appointments' : b.id = a.id => b.status = "CANCELLED"]_vars

\* C29, what the guarded operations do keep: schedule and cancel never move
\* an appointment out of CANCELLED
C29_ScheduleAndCancelKeepCancelled ==
    [][last'.op \in {"schedule", "cancel", "create"}
       => \A a \in appointments :
             a.status = "CANCELLED"
             => \A b \in appointments' : b.id = a.id => b.status = "CANCELLED"]_vars

\* C29, the case reached: update has just moved a cancelled appointment to
\* SCHEDULED, its cancellationReason still in the row
C29_ReachedReopened ==
    /\ last.op = "update"
    /\ last.success
    /\ last.input.status = "SCHEDULED"
    /\ \E a \in appointments :
          a.id = last.id /\ a.status = "SCHEDULED" /\ a.cancellationReason # <<>>

\* C24: createGuestUserAndPatient with the e-mail of an existing user creates
\* no user and returns the existing one, and adds a patient profile for that
\* user exactly when it has none; after every successful call there is one
\* user with that e-mail and one patient profile for it.
C24_GuestIdempotentOnEmail ==
    [][last'.op = "createGuest"
       => LET e == toLowerCase(last'.input.email)
              existing == {u \in users : u.email = e}
          IN  /\ existing # {}
                 => /\ last'.success
                    /\ last'.user \in existing
                    /\ users' = users
                    /\ nextId' = nextId
                    /\ CallsTo(last'.calls, "userRepository.create") = {}
                    /\ patients \subseteq patients'
                    /\ \A u \in existing :
                          IF \E p \in patients : p.userId = u.id
                          THEN patients' = patients
                          ELSE /\ Cardinality(patients' \ patients) = 1
                               /\ \A p \in patients' \ patients : p.userId = u.id
              /\ last'.success
                 => /\ Cardinality({u \in users' : u.email = e}) = 1
                    /\ Cardinality({p \in patients' : p.userId = last'.user.id}) = 1
                    /\ last'.user \in users'
                    /\ last'.user.email = e]_vars

\* C24 witness: a call found the guest user and the profile that an earlier
\* call had created, and created nothing
C24_Witness ==
    /\ last.op = "createGuest"
    /\ last.success
    /\ last.calls = <<>>
    /\ last.user.password = null
    /\ Cardinality({u \in users : u.email = last.user.email}) = 1
    /\ Cardinality({p \in patients : p.userId = last.user.id}) = 1

\* C24, the other case reached: a registered user without a profile got one
C24_ReachedProfileAdded ==
    /\ last.op = "createGuest"
    /\ last.success
    /\ last.calls = <<>>
    /\ last.user.password # null
    /\ Cardinality({p \in patients : p.userId = last.user.id}) = 1

\* The token names a subject that has a user record
HasRecord(token) ==
    token # NoToken /\ \E u \in users : u.id = token.payload.userId

\* C25: when no presented token names a subject with a user record, guard
\* resolution returns the unauthenticated context, sets no cookie and issues
\* nothing; the refreshToken mutation with such a token fails, issues no
\* access token and sets no cookie, with "User not found" when the token is
\* otherwise valid.
C25_DeletedSubjectRefused ==
    [][/\ (/\ last'.op = "createAuthContext"
           /\ ~HasRecord(last'.req.accessToken)
           /\ ~HasRecord(last'.req.refreshToken))
          => /\ last'.ctx = Unauthenticated
             /\ last'.cookies = <<>>
             /\ issued' = issued
       /\ (/\ last'.op = "refreshToken"
           /\ last'.req.refreshToken # NoToken
           /\ ~HasRecord(last'.req.refreshToken))
          => /\ ~last'.success
             /\ last'.user = NoUser
             /\ last'.newAccessToken = NoToken
             /\ last'.cookies = <<>>
             /\ issued' = issued
             /\ (/\ jwtVerify(last'.req.refreshToken, JWT_REFRESH_SECRET)
                 /\ ~isTokenBlacklisted(blacklist, getTokenId(last'.req.refreshToken)))
                => last'.errors = <<[message |-> "User not found",
                                     code |-> "USER_NOT_FOUND"]>>]_vars

\* C25 witness: the refresh token of a deleted user, unexpired and never
\* revoked, was refused by the refreshToken mutation
C25_Witness ==
    /\ last.op = "refreshToken"
    /\ last.req.refreshToken \in issued
    /\ jwtVerify(last.req.refreshToken, JWT_REFRESH_SECRET)
    /\ getTokenId(last.req.refreshToken) \notin DOMAIN revoked
    /\ ~HasRecord(last.req.refreshToken)
    /\ ~last.success
    /\ last.errors[1].code = "USER_NOT_FOUND"

\* C25, the guard's cases reached: a deleted user's valid access token, and
\* a deleted user's valid refresh token, each answered unauthenticated
C25_ReachedGuardAccess ==
    /\ last.op = "createAuthContext"
    /\ last.req.accessToken \in issued
    /\ validateToken(last.req.accessToken)
    /\ ~HasRecord(last.req.accessToken)
    /\ last.ctx = Unauthenticated
C25_ReachedGuardRefresh ==
    /\ last.op = "createAuthContext"
    /\ last.req.refreshToken \in issued
    /\ jwtVerify(last.req.refreshToken, JWT_REFRESH_SECRET)
    /\ getTokenId(last.req.refreshToken) \notin DOMAIN revoked
    /\ ~HasRecord(last.req.refreshToken)
    /\ last.ctx = Unauthenticated

\* The cookie values passed to logout so far
PassedToLogout ==
    {req.accessToken : req \in loggedOut} \cup {req.refreshToken : req \in loggedOut}

\* C26: after any sequence of logouts, a token is reported blacklisted only
\* if that token itself was passed to logout.
C26_OnlyLoggedOutTokensRevoked ==
    \A t \in issued :
        isTokenBlacklisted(blacklist, getTokenId(t)) => t \in PassedToLogout

\* C26, the case reached: a refresh token that no logout carried, unexpired
\* and of an existing user, was refused as revoked
C26_ReachedOtherRevoked ==
    /\ last.op = "refreshToken"
    /\ ~last.success
    /\ last.req.refreshToken \in issued
    /\ last.req.refreshToken \notin PassedToLogout
    /\ jwtVerify(last.req.refreshToken, JWT_REFRESH_SECRET)
    /\ HasRecord(last.req.refreshToken)

\* C26, what does hold: a token reported blacklisted shares its identifier
\* with a cookie value that was passed to logout
C26_RevokedByIdentifier ==
    \A t \in issued :
        isTokenBlacklisted(blacklist, getTokenId(t))
        => \E c \in PassedToLogout \ {NoToken} : getTokenId(c) = getTokenId(t)

\* What a lookup returns when no sweep ever runs: whether the latest
\* blacklistToken call for the identifier gave an expiresAt not yet passed
WithoutSweeps(tokenId) ==
    tokenId \in DOMAIN revoked /\ ~(now > revoked[tokenId])

\* The lookups of a run without sweeps return WithoutSweeps
C27_LookupWithoutSweeps ==
    last.op = "isTokenBlacklisted" => last.result = WithoutSweeps(last.tokenId)

\* C27: a sweep removes exactly the entries with now > expiresAt and leaves
\* every other entry as it was, and in every interleaving of blacklistToken
\* calls, lookups, sweeps and the clock each lookup returns what it returns
\* in the run with the sweeps removed.
C27_SweepUnobservable ==
    [][/\ last'.op = "sweep"
          => /\ DOMAIN blacklist' = {id \in DOMAIN blacklist : ~(now > blacklist[id])}
             /\ \A id \in DOMAIN blacklist' : blacklist'[id] = blacklist[id]
       /\ last'.op = "isTokenBlacklisted"
          => last'.result = WithoutSweeps(last'.tokenId)]_vars

\* C27 witness: a sweep has just removed an entry past its expiresAt and
\* kept one that expires at this very instant
C27_Witness ==
    /\ last.op = "sweep"
    /\ \E id \in DOMAIN revoked : now > revoked[id] /\ id \notin DOMAIN blacklist
    /\ \E id \in DOMAIN blacklist : blacklist[id] = now

\* C27, lookups reached once the cleanup job is due: one answering true for
\* an entry that expires at this instant, one answering false for an
\* identifier that was revoked
C27_ReachedLookupKept ==
    /\ last.op = "isTokenBlacklisted"
    /\ last.result
    /\ now >= CLEANUP_INTERVAL
    /\ blacklist[last.tokenId] = now
C27_ReachedLookupExpired ==
    /\ last.op = "isTokenBlacklisted"
    /\ ~last.result
    /\ last.tokenId \in DOMAIN revoked
    /\ now >= CLEANUP_INTERVAL

\* C28: every context guard resolution returns has isAuthenticated true
\* exactly when its user is present and exactly when its token is present;
\* the user of an authenticated context is the stored record of the subject
\* of the token that authenticated the request, and the context's token
\* names that subject.
C28_AuthContextConsistent ==
    last.op \in GuardOps
    => LET ctx == last.ctx
       IN  /\ ctx.isAuthenticated \in BOOLEAN
           /\ ctx.isAuthenticated <=> ctx.user # NoUser
           /\ ctx.isAuthenticated <=> ctx.token # NoToken
           /\ ctx.isAuthenticated
              => /\ ctx.user \in users
                 /\ ctx.token.payload.userId = ctx.user.id
                 /\ last.op = "createAuthContext"
                    => /\ last.via \in {"access", "refresh"}
                       /\ last.via = "access"
                          => /\ ctx.token = last.req.accessToken
                             /\ ctx.user.id = last.req.accessToken.payload.userId
                       /\ last.via = "refresh"
                          => /\ ctx.user.id = last.req.refreshToken.payload.userId
                             /\ ctx.token \in issued
                 /\ last.op = "createAuthContextHeader"
                    => ctx.token = extractTokenFromHeader(last.header)

\* C28 witness: a Bearer token that verifies, of a user since deleted, got
\* the context with no user, no token and isAuthenticated false
C28_Witness ==
    /\ last.op = "createAuthContextHeader"
    /\ ~last.lookupFails
    /\ extractTokenFromHeader(last.header) \in issued
    /\ validateToken(extractTokenFromHeader(last.header))
    /\ last.ctx = Unauthenticated

\* C28, the authenticated contexts reached: by header, and by refresh token
\* with the newly issued access token in the context
C28_ReachedHeader ==
    /\ last.op = "createAuthContextHeader"
    /\ last.ctx.isAuthenticated
    /\ last.ctx.user \in users
C28_ReachedRefresh ==
    /\ last.op = "createAuthContext"
    /\ last.via = "refresh"
    /\ last.ctx.isAuthenticated
    /\ last.ctx.token # last.req.refreshToken
    /\ last.ctx.user.id = last.req.refreshToken.payload.userId

\* Two calls carry the same e-mail or the same phone
SameEmailOrPhone(c, d) ==
    toLowerCase(c.email) = toLowerCase(d.email) \/ c.phone = d.phone

\* C30: of the register / createGuestUserAndPatient / createAdmin calls that
\* carry the same e-mail or the same phone, interleaved at their awaits, at
\* most one reaches the repository create call, and no two users have the
\* same e-mail or the same phone.
C30_AtMostOneReachesCreate ==
    /\ \A i \in DOMAIN inflight, j \in DOMAIN inflight :
          (i # j /\ SameEmailOrPhone(inflight[i], inflight[j]))
          => ~(inflight[i].createCalled /\ inflight[j].createCalled)
    /\ \A u \in users, v \in users :
          u # v => u.email # v.email /\ u.phone # v.phone

\* C30, the case reached: two calls with the same e-mail both passed the
\* uniqueness checks and both called create; the database refused the second
C30_ReachedBothCreate ==
    \E i \in DOMAIN inflight, j \in DOMAIN inflight :
        /\ i # j
        /\ inflight[i].email = inflight[j].email
        /\ inflight[i].createCalled /\ inflight[j].createCalled
        /\ inflight[i].outcome = "created"
        /\ inflight[j].outcome = "UniqueConstraintError"

\* C30, what does hold while the database keeps its unique indexes: no two
\* users share an e-mail or a phone, and no user has two patient profiles
C30_NoDuplicateRows ==
    /\ \A u \in users, v \in users :
          u # v => u.email # v.email /\ u.phone # v.phone
    /\ \A p \in patients, q \in patients : p # q => p.userId # q.userId
====
